---------------------------- MODULE Spec2Model ----------------------------
(***************************************************************************)
(* A model of the lighting-control scripts of the repository:              *)
(*   src/dev001.py  BMSLightController       (strategy chain + zones)      *)
(*   src/dev002.py  SmartHomeLightController (nmap scan + worker pool)     *)
(*   src/dev003.py  BuildingLightController  (catalog discovery + chain)   *)
(* One behaviour runs one of the scripts; `script` says which.             *)
(***************************************************************************)
EXTENDS Integers, Sequences, FiniteSets, TLC

VARIABLES
    script,            \* which script this behaviour runs
    \* ---- src/dev001.py, BMSLightController --------------------------------
    bms_pc,            \* position inside turn_off_all_lights and its callees
    mi,                \* index of the current element of `methods`
    ep,                \* index of the current endpoint inside a strategy
    attempts,          \* history: the strategies invoked and how each ended
    bms_result,        \* return value of turn_off_all_lights ("none" before)
    zones,             \* value returned by get_lighting_zones
    zi,                \* index of the current zone in the for loop
    success_count,     \* the local success_count of _turn_off_zone_by_zone
    zlog,              \* history: zone command starts/ends and sleeps
    ti,                \* index of the current element of `protocols`
    tests,             \* history: the protocol tests run and what each returned
    protocol_name,     \* return value of discover_bms_protocol ("none" before)
    stub,              \* the controller answering: any response, or a fixed responder
    run,               \* number of the current call of turn_off_all_lights
    first_run,         \* history: what the first call invoked and returned
    last_request,      \* history: the last command request and how it was judged
    main_pc,           \* position inside main of dev001 ("none": main is not running)
    \* ---- src/dev002.py, SmartHomeLightController --------------------------
    common_ports,      \* self.common_ports
    lookups,           \* history: one record per identify_device_by_port call
    home_pc,           \* position inside main and turn_off_all_lights of dev002
    nmap_output,       \* result.stdout of the nmap run, as a sequence of lines
    devices,           \* the list scan_network returned
    tasks,             \* the thread pool: for each device, the state of its call
    results,           \* the list built from executor.map
    summary,           \* the two counts printed at the end
    answer,            \* the line input() returned, until the test after it has read it
    \* ---- src/dev003.py, BuildingLightController ---------------------------
    net,               \* the network: state of every address
    common_controllers,\* the target list
    bld_pc,            \* position inside building_wide_light_off
    di,                \* index of the current target
    dj,                \* index of the current catalog entry
    found_controllers, \* the list discovery builds and returns
    probes,            \* history: one record per check_controller call
    ci,                \* index of the current controller in the dispatch loop
    fb,                \* index in the fallback list of emergency_light_off
    rep,               \* index of the current endpoint in turn_off_lights_via_rest
    calls,             \* history: strategies invoked by the current emergency_light_off
    dispatched,        \* history: one record per finished emergency_light_off
    bld_result,        \* return value of building_wide_light_off ("none" before)
    leaked,            \* a socket of a returned call was never closed and is still open
    rest_request       \* history: the last request of turn_off_lights_via_rest

discVars == <<ti, tests, protocol_name>>
callVars == <<stub, run, first_run>>
bmsVars == <<bms_pc, mi, ep, attempts, bms_result, zones, zi, success_count, zlog,
             discVars, callVars, last_request, main_pc>>
homeRun == <<home_pc, nmap_output, devices, tasks, results, summary>>
homeVars == <<common_ports, lookups, homeRun, answer>>
bldVars == <<net, common_controllers, bld_pc, di, dj, found_controllers, probes,
             ci, fb, rep, calls, dispatched, bld_result, leaked, rest_request>>
vars == <<script, bmsVars, homeVars, bldVars>>

\* ------------------------------------------------------------------ bounds
MaxZones == 3          \* longest zone list an endpoint answers with
MaxTargets == 2        \* longest target list
MaxLookups == 2        \* most calls of identify_device_by_port in a behaviour
MaxLines == 3          \* longest nmap output drawn line by line

\* --------------------------------------------------------- the environment
\* What one HTTP request gives: an exception (timeout, refused, ...) or a
\* response with a status code.
Statuses == {200, 201, 202, 404}
Responses == {[raised |-> TRUE, status |-> 0]}
                \cup {[raised |-> FALSE, status |-> s] : s \in Statuses}

Absent == "absent"     \* a key a JSON object does not have
\* Entries of a zone list: JSON objects with some of the keys id, zoneId and
\* name, and one entry that is no object (a string, a number).
ZoneEntries ==
    { [obj |-> TRUE,  id |-> "z1",   zoneId |-> Absent, name |-> "hall"],
      [obj |-> TRUE,  id |-> Absent, zoneId |-> "z2",   name |-> Absent],
      [obj |-> TRUE,  id |-> Absent, zoneId |-> Absent, name |-> Absent],
      [obj |-> FALSE, id |-> Absent, zoneId |-> Absent, name |-> Absent] }

SeqsUpTo(S, n) == UNION { [1..k -> S] : k \in 0..n }

\* Bodies of a 200 answer to a list-zones request: not JSON at all, a JSON
\* list, null, the number 0 ("zero"), or another number ("number").
ZoneBodies ==
    { [kind |-> "list", items |-> s] : s \in SeqsUpTo(ZoneEntries, MaxZones) }
    \cup { [kind |-> k, items |-> <<>>] : k \in {"unparseable", "null", "zero", "number"} }

\* The controller of dev001 that answers. FreeEnv: any response may come to
\* any request. A fixed responder answers the same every time: `status` to
\* candidate `ep` of the bulk strategy `who`, 200 with a list of two zones to
\* list-zones endpoint `zones_ep`, 200 to the first off endpoint of the zones
\* in `zone_ok`, and 404 to everything else.
FreeEnv == [fixed |-> FALSE, who |-> "", ep |-> 0, status |-> 0,
            zones_ep |-> 0, zone_ok |-> {}]
StubZones == [kind |-> "list",
              items |-> << [obj |-> TRUE, id |-> "z1", zoneId |-> Absent, name |-> "hall"],
                           [obj |-> TRUE, id |-> Absent, zoneId |-> "z2", name |-> Absent] >>]
Answer(s) == {[raised |-> FALSE, status |-> s]}
Answers(who, n) ==
    IF stub.fixed
    THEN Answer(IF stub.who = who /\ stub.ep = n THEN stub.status ELSE 404)
    ELSE Responses
ZoneListAnswers(n) ==
    IF stub.fixed THEN Answer(IF stub.zones_ep = n THEN 200 ELSE 404) ELSE Responses
ZoneOffAnswers(id, n) ==
    IF stub.fixed THEN Answer(IF id \in stub.zone_ok /\ n = 1 THEN 200 ELSE 404)
    ELSE Responses

\* The last command request: who sent it, the response, and whether the code
\* took it for a success.
NoRequest == [who |-> "", r |-> [raised |-> FALSE, status |-> 0], accepted |-> FALSE]
NoRun == [attempts |-> <<>>, result |-> "none"]

\* ===================================================== src/dev001.py =====
\* turn_off_all_lights: the list `methods`.
methods_zone_first ==
    <<"_turn_off_via_rest", "_turn_off_via_soap", "_turn_off_via_simple_http",
      "_turn_off_zone_by_zone", "_turn_off_via_bacnet_simulation">>
methods ==
    <<"_turn_off_via_rest", "_turn_off_via_soap", "_turn_off_via_simple_http",
      "_turn_off_via_bacnet_simulation", "_turn_off_zone_by_zone">>

\* Number of candidates each strategy walks through.
rest_endpoints == 5            \* _turn_off_via_rest: endpoints
simple_http_commands == 5      \* _turn_off_via_simple_http: commands
zone_list_endpoints == 5       \* get_lighting_zones: endpoints
zone_off_endpoints == 4        \* turn_off_zone: endpoints

\* The fixed responders: at most one bulk command accepted, with 200 or 202.
StubCommands ==
    {[who |-> "", ep |-> 0]}
    \cup {[who |-> "_turn_off_via_rest", ep |-> k] : k \in 1..rest_endpoints}
    \cup {[who |-> "_turn_off_via_soap", ep |-> 1]}
    \cup {[who |-> "_turn_off_via_simple_http", ep |-> k] : k \in 1..simple_http_commands}
    \cup {[who |-> "_turn_off_via_bacnet_simulation", ep |-> 1]}
Stubs ==
    { [fixed |-> TRUE, who |-> c.who, ep |-> c.ep, status |-> s,
       zones_ep |-> z, zone_ok |-> ok] :
        c \in StubCommands, s \in {200, 202}, z \in {0, 2}, ok \in {{}, {"z2"}} }

\* `response.status_code in [200, 201, 202]`
StatusIn200_201_202(r) == ~r.raised /\ r.status \in {200, 201, 202}
\* `response.status_code == 200`
StatusIs200(r) == ~r.raised /\ r.status = 200
\* The success test of each bulk strategy.
Succeeds_no200(name, r) ==
    IF name = "_turn_off_via_rest"
    THEN ~r.raised /\ r.status \in {201, 202}
    ELSE StatusIs200(r)
Succeeds(name, r) ==
    IF name = "_turn_off_via_rest" THEN StatusIn200_201_202(r) ELSE StatusIs200(r)

\* zone.get('id', zone.get('zoneId', zone.get('name'))); "None" when no key.
ZoneIdOf(zone) ==
    IF zone.id # Absent THEN zone.id
    ELSE IF zone.zoneId # Absent THEN zone.zoneId
    ELSE IF zone.name # Absent THEN zone.name
    ELSE "None"

\* `not zones` for the value get_lighting_zones returned.
Falsy(z) == z.kind \in {"null", "zero"} \/ (z.kind = "list" /\ z.items = <<>>)

SetLast(s, v) == [s EXCEPT ![Len(s)] = v]

\* The object a strategy sends its requests through: every strategy of
\* BMSLightController calls self.session.post or self.session.get, and
\* self.session is the one requests.Session that __init__ created.
SessionOf(method) == "self.session"

\* The strategy id that a value returned by turn_off_all_lights carries:
\* the function returns True or False, and a bool names no strategy.
StrategyIdOf(result) == Absent

\* The for loop of turn_off_all_lights once methods[mi] has ended:
\* outcome is "True", "False" (a falsy return) or "Raise" (caught by the except).
MethodEnds_skip(outcome) ==
    /\ attempts' = SetLast(attempts, [m |-> methods[mi], out |-> outcome,
                                      session |-> SessionOf(methods[mi])])
    /\ IF outcome = "True"
       THEN /\ bms_result' = "True"
            /\ bms_pc' = "done"
            /\ mi' = mi
       ELSE /\ bms_result' = bms_result
            /\ bms_pc' = "call"
            /\ mi' = IF mi = 2 THEN mi + 2 ELSE mi + 1
MethodEnds(outcome) ==
    /\ attempts' = SetLast(attempts, [m |-> methods[mi], out |-> outcome,
                                      session |-> SessionOf(methods[mi])])
    /\ IF outcome = "True"
       THEN /\ bms_result' = "True"
            /\ bms_pc' = "done"
            /\ mi' = mi
       ELSE /\ bms_result' = bms_result
            /\ bms_pc' = "call"
            /\ mi' = mi + 1

\* turn_off_all_lights is called on a fresh object, outside main.
TurnOffAllLights ==
    /\ script = "dev001"
    /\ main_pc = "none"
    /\ bms_pc = "idle"
    /\ bms_pc' = "call"
    /\ mi' = 1
    /\ UNCHANGED <<ep, attempts, bms_result, zones, zi, success_count, zlog>>
    /\ UNCHANGED <<script, main_pc, bldVars, homeVars, discVars, callVars, last_request>>

\* turn_off_all_lights is called a second time on the same object, against
\* a responder that answers as before. The locals of the first call are
\* gone: the loop starts again at the head of `methods`.
TurnOffAllLightsAgain_resume ==
    /\ script = "dev001"
    /\ bms_pc = "done"
    /\ run = 1
    /\ stub.fixed
    /\ first_run' = [attempts |-> attempts, result |-> bms_result]
    /\ run' = 2
    /\ bms_pc' = "call"
    /\ mi' = mi
    /\ attempts' = <<>>
    /\ bms_result' = "none"
    /\ zlog' = <<>>
    /\ UNCHANGED <<ep, zones, zi, success_count, stub>>
    /\ UNCHANGED <<script, main_pc, bldVars, homeVars, discVars, last_request>>
TurnOffAllLightsAgain ==
    /\ script = "dev001"
    /\ bms_pc = "done"
    /\ run = 1
    /\ stub.fixed
    /\ first_run' = [attempts |-> attempts, result |-> bms_result]
    /\ run' = 2
    /\ bms_pc' = "call"
    /\ mi' = 1
    /\ attempts' = <<>>
    /\ bms_result' = "none"
    /\ zlog' = <<>>
    /\ UNCHANGED <<ep, zones, zi, success_count, stub>>
    /\ UNCHANGED <<script, main_pc, bldVars, homeVars, discVars, last_request>>

\* `for method in methods: ... method()`: the next method is invoked.
InvokeMethod ==
    /\ bms_pc = "call"
    /\ mi <= Len(methods)
    /\ bms_pc' = methods[mi]
    /\ ep' = 1
    /\ attempts' = Append(attempts, [m |-> methods[mi], out |-> "running",
                                     session |-> SessionOf(methods[mi])])
    /\ UNCHANGED <<mi, bms_result, zones, zi, success_count, zlog>>
    /\ UNCHANGED <<script, main_pc, bldVars, homeVars, discVars, callVars, last_request>>

\* The list is exhausted: `return False`.
MethodsExhausted ==
    /\ bms_pc = "call"
    /\ mi > Len(methods)
    /\ bms_pc' = "done"
    /\ bms_result' = "False"
    /\ UNCHANGED <<mi, ep, attempts, zones, zi, success_count, zlog>>
    /\ UNCHANGED <<script, main_pc, bldVars, homeVars, discVars, callVars, last_request>>

\* One request of a strategy that walks through n candidates and returns
\* True at the first response its success test accepts, False after the last.
CandidateRequest(name, n) ==
    /\ bms_pc = name
    /\ \E r \in Answers(name, ep) :
         /\ last_request' = [who |-> name, r |-> r, accepted |-> Succeeds(name, r)]
         /\ IF Succeeds(name, r)
            THEN MethodEnds("True") /\ ep' = ep
            ELSE IF ep < n
                 THEN /\ ep' = ep + 1
                      /\ UNCHANGED <<bms_pc, mi, attempts, bms_result>>
                 ELSE MethodEnds("False") /\ ep' = ep
    /\ UNCHANGED <<zones, zi, success_count, zlog>>
    /\ UNCHANGED <<script, main_pc, bldVars, homeVars, discVars, callVars>>

\* _turn_off_via_rest: five endpoints, any of 200, 201, 202 is a success.
TurnOffViaRest ==
    /\ script = "dev001"
    /\ CandidateRequest("_turn_off_via_rest", rest_endpoints)
\* _turn_off_via_soap: one request, `return response.status_code == 200`.
TurnOffViaSoap ==
    /\ script = "dev001"
    /\ CandidateRequest("_turn_off_via_soap", 1)
\* _turn_off_via_simple_http: five commands, only 200 is a success.
TurnOffViaSimpleHttp ==
    /\ script = "dev001"
    /\ CandidateRequest("_turn_off_via_simple_http", simple_http_commands)
\* _turn_off_via_bacnet_simulation: one request, only 200 is a success.
TurnOffViaBacnetSimulation ==
    /\ script = "dev001"
    /\ CandidateRequest("_turn_off_via_bacnet_simulation", 1)

\* ---- _turn_off_zone_by_zone and what it calls ----
NoZones == [kind |-> "list", items |-> <<>>]

\* The bodies that may come with the answer r to a list-zones request.
ZoneListBodies(r) ==
    IF ~StatusIs200(r) THEN {NoZones}
    ELSE IF stub.fixed THEN {StubZones} ELSE ZoneBodies

\* get_lighting_zones has returned z; _turn_off_zone_by_zone goes on:
\* `if not zones: return False`, then the for loop (a number is not iterable:
\* the TypeError is caught by `except Exception` and gives False).
ZonesReturned(z) ==
    /\ zones' = z
    /\ IF Falsy(z) \/ z.kind = "number"
       THEN /\ MethodEnds("False")
            /\ UNCHANGED <<zi, success_count>>
       ELSE /\ success_count' = 0
            /\ zi' = 1
            /\ bms_pc' = "zone_loop"
            /\ UNCHANGED <<mi, attempts, bms_result>>

\* One request of get_lighting_zones: a 200 answer whose body parses is
\* returned as it is; anything else moves on to the next endpoint, and after
\* the last endpoint [] is returned.
GetLightingZones ==
    /\ bms_pc = "_turn_off_zone_by_zone"
    /\ \E r \in ZoneListAnswers(ep) :
         \E body \in ZoneListBodies(r) :
           IF StatusIs200(r) /\ body.kind # "unparseable"
           THEN ZonesReturned(body) /\ ep' = ep
           ELSE IF ep < zone_list_endpoints
                THEN /\ ep' = ep + 1
                     /\ UNCHANGED <<bms_pc, mi, attempts, bms_result, zones, zi,
                                    success_count>>
                ELSE ZonesReturned(NoZones) /\ ep' = ep
    /\ UNCHANGED zlog
    /\ UNCHANGED <<script, main_pc, bldVars, homeVars, discVars, callVars, last_request>>

ZoneEvent(ev, ok) ==
    [ev |-> ev, zone |-> zi, id |-> ZoneIdOf(zones.items[zi]), ok |-> ok]

\* `for zone in zones`: the next zone; zone.get on an entry that is no object
\* raises, and the except clause returns False.
ZoneLoopNext ==
    /\ bms_pc = "zone_loop"
    /\ zi <= Len(zones.items)
    /\ IF zones.items[zi].obj
       THEN /\ bms_pc' = "turn_off_zone"
            /\ ep' = 1
            /\ zlog' = Append(zlog, ZoneEvent("start", FALSE))
            /\ UNCHANGED <<mi, attempts, bms_result>>
       ELSE /\ MethodEnds("False")
            /\ UNCHANGED <<ep, zlog>>
    /\ UNCHANGED <<zones, zi, success_count>>
    /\ UNCHANGED <<script, main_pc, bldVars, homeVars, discVars, callVars, last_request>>

\* The for loop is over: `return success_count > 0`.
ZoneLoopEnd ==
    /\ bms_pc = "zone_loop"
    /\ zi > Len(zones.items)
    /\ MethodEnds(IF success_count > 0 THEN "True" ELSE "False")
    /\ UNCHANGED <<ep, zones, zi, success_count, zlog>>
    /\ UNCHANGED <<script, main_pc, bldVars, homeVars, discVars, callVars, last_request>>

\* One request of turn_off_zone. On True the caller counts the zone and goes
\* to sleep; on False (all four endpoints failed) it goes to the next zone.
TurnOffZone_countall ==
    /\ bms_pc = "turn_off_zone"
    /\ \E r \in ZoneOffAnswers(ZoneIdOf(zones.items[zi]), ep) :
         /\ last_request' = [who |-> "turn_off_zone", r |-> r,
                             accepted |-> StatusIn200_201_202(r)]
         /\ IF StatusIn200_201_202(r)
            THEN /\ success_count' = success_count + 1
                 /\ zlog' = Append(zlog, ZoneEvent("end", TRUE))
                 /\ bms_pc' = "sleep"
                 /\ UNCHANGED <<ep, zi>>
            ELSE IF ep < zone_off_endpoints
                 THEN /\ ep' = ep + 1
                      /\ UNCHANGED <<bms_pc, zi, success_count, zlog>>
                 ELSE /\ zlog' = Append(zlog, ZoneEvent("end", FALSE))
                      /\ zi' = zi + 1
                      /\ success_count' = success_count + 1
                      /\ bms_pc' = "zone_loop"
                      /\ ep' = ep
    /\ UNCHANGED <<mi, attempts, bms_result, zones>>
    /\ UNCHANGED <<script, main_pc, bldVars, homeVars, discVars, callVars>>
TurnOffZone_retry ==
    /\ bms_pc = "turn_off_zone"
    /\ \E r \in ZoneOffAnswers(ZoneIdOf(zones.items[zi]), ep) :
         /\ last_request' = [who |-> "turn_off_zone", r |-> r,
                             accepted |-> StatusIn200_201_202(r)]
         /\ IF StatusIn200_201_202(r)
            THEN /\ success_count' = success_count + 1
                 /\ zlog' = Append(zlog, ZoneEvent("end", TRUE))
                 /\ bms_pc' = "sleep"
                 /\ UNCHANGED <<ep, zi>>
            ELSE IF ep < zone_off_endpoints
                 THEN /\ ep' = ep + 1
                      /\ UNCHANGED <<bms_pc, zi, success_count, zlog>>
                 ELSE /\ ep' = 1
                      /\ UNCHANGED <<bms_pc, zi, success_count, zlog>>
    /\ UNCHANGED <<mi, attempts, bms_result, zones>>
    /\ UNCHANGED <<script, main_pc, bldVars, homeVars, discVars, callVars>>
TurnOffZone ==
    /\ bms_pc = "turn_off_zone"
    /\ \E r \in ZoneOffAnswers(ZoneIdOf(zones.items[zi]), ep) :
         /\ last_request' = [who |-> "turn_off_zone", r |-> r,
                             accepted |-> StatusIn200_201_202(r)]
         /\ IF StatusIn200_201_202(r)
            THEN /\ success_count' = success_count + 1
                 /\ zlog' = Append(zlog, ZoneEvent("end", TRUE))
                 /\ bms_pc' = "sleep"
                 /\ UNCHANGED <<ep, zi>>
            ELSE IF ep < zone_off_endpoints
                 THEN /\ ep' = ep + 1
                      /\ UNCHANGED <<bms_pc, zi, success_count, zlog>>
                 ELSE /\ zlog' = Append(zlog, ZoneEvent("end", FALSE))
                      /\ zi' = zi + 1
                      /\ bms_pc' = "zone_loop"
                      /\ UNCHANGED <<ep, success_count>>
    /\ UNCHANGED <<mi, attempts, bms_result, zones>>
    /\ UNCHANGED <<script, main_pc, bldVars, homeVars, discVars, callVars>>

\* `time.sleep(0.5)`, inside the `if self.turn_off_zone(zone_id):` branch.
Sleep_skip ==
    /\ bms_pc = "sleep"
    /\ zlog' = Append(zlog, ZoneEvent("sleep", TRUE))
    /\ zi' = zi + 2
    /\ bms_pc' = "zone_loop"
    /\ UNCHANGED <<mi, ep, attempts, bms_result, zones, success_count>>
    /\ UNCHANGED <<script, main_pc, bldVars, homeVars, discVars, callVars, last_request>>
Sleep ==
    /\ bms_pc = "sleep"
    /\ zlog' = Append(zlog, ZoneEvent("sleep", TRUE))
    /\ zi' = zi + 1
    /\ bms_pc' = "zone_loop"
    /\ UNCHANGED <<mi, ep, attempts, bms_result, zones, success_count>>
    /\ UNCHANGED <<script, main_pc, bldVars, homeVars, discVars, callVars, last_request>>

\* ---- discover_bms_protocol and the protocol tests ----
\* The list `protocols` of discover_bms_protocol: each test with the name it
\* returns, how it checks (a TCP connect_ex, an HTTP GET, the SOAP POST) and
\* the ports or paths it walks through.
protocols_rest_first ==
    << [test |-> "_try_rest_api", name |-> "REST API", via |-> "get",
        candidates |-> <<"/api/v1/lights", "/api/lights", "/rest/lighting",
                         "/bms/api/control", "/lighting/zones", "/api/lighting">>],
       [test |-> "_try_bacnet",   name |-> "BACnet",   via |-> "tcp",
        candidates |-> <<47808>>],
       [test |-> "_try_modbus",   name |-> "Modbus",   via |-> "tcp",
        candidates |-> <<502, 510, 1502>>],
       [test |-> "_try_knx",      name |-> "KNX",      via |-> "tcp",
        candidates |-> <<3671, 3672>>],
       [test |-> "_try_lonworks", name |-> "LonWorks", via |-> "tcp",
        candidates |-> <<1628>>],
       [test |-> "_try_soap_api", name |-> "SOAP API", via |-> "soap",
        candidates |-> <<"/wsdl">>],
       [test |-> "_try_simple_http", name |-> "Simple HTTP", via |-> "get",
        candidates |-> <<"/lightoff.cgi", "/control.cgi", "/cmd.xml",
                         "/status.xml", "/api.cgi">>] >>
protocols ==
    << [test |-> "_try_bacnet",   name |-> "BACnet",   via |-> "tcp",
        candidates |-> <<47808>>],
       [test |-> "_try_modbus",   name |-> "Modbus",   via |-> "tcp",
        candidates |-> <<502, 510, 1502>>],
       [test |-> "_try_knx",      name |-> "KNX",      via |-> "tcp",
        candidates |-> <<3671, 3672>>],
       [test |-> "_try_lonworks", name |-> "LonWorks", via |-> "tcp",
        candidates |-> <<1628>>],
       [test |-> "_try_rest_api", name |-> "REST API", via |-> "get",
        candidates |-> <<"/api/v1/lights", "/api/lights", "/rest/lighting",
                         "/bms/api/control", "/lighting/zones", "/api/lighting">>],
       [test |-> "_try_soap_api", name |-> "SOAP API", via |-> "soap",
        candidates |-> <<"/wsdl">>],
       [test |-> "_try_simple_http", name |-> "Simple HTTP", via |-> "get",
        candidates |-> <<"/lightoff.cgi", "/control.cgi", "/cmd.xml",
                         "/status.xml", "/api.cgi">>] >>

\* What s.connect_ex gives inside a protocol test: an exception, 0, or the
\* errno of a refused connection.
ConnectResults == {[raised |-> TRUE, errno |-> 0]}
                    \cup {[raised |-> FALSE, errno |-> e] : e \in {0, 111}}

\* discover_bms_protocol is called on a fresh object, outside main.
DiscoverBmsProtocol ==
    /\ script = "dev001"
    /\ main_pc = "none"
    /\ bms_pc = "idle"
    /\ ~stub.fixed
    /\ bms_pc' = "discover"
    /\ ti' = 1
    /\ ep' = 1
    /\ UNCHANGED <<tests, protocol_name>>
    /\ UNCHANGED <<mi, attempts, bms_result, zones, zi, success_count, zlog>>
    /\ UNCHANGED <<script, main_pc, bldVars, homeVars, callVars, last_request>>

\* One candidate of the test protocols[ti] has been checked. accepted: the
\* test returns its name, and discover_bms_protocol returns it too. Otherwise
\* the test goes to its next candidate, or returns None after the last and
\* the loop of discover_bms_protocol goes to the next test.
CandidateChecked(accepted) ==
    LET t == protocols[ti]
    IN  IF accepted
        THEN /\ tests' = Append(tests, [test |-> t.test, result |-> t.name])
             /\ protocol_name' = t.name
             /\ bms_pc' = "discovered"
             /\ UNCHANGED <<ti, ep>>
        ELSE IF ep < Len(t.candidates)
        THEN /\ ep' = ep + 1
             /\ UNCHANGED <<ti, tests, protocol_name, bms_pc>>
        ELSE /\ tests' = Append(tests, [test |-> t.test, result |-> "None"])
             /\ ti' = ti + 1
             /\ ep' = 1
             /\ UNCHANGED <<protocol_name, bms_pc>>

\* _try_bacnet, _try_modbus, _try_knx, _try_lonworks: one connect_ex;
\* `if result == 0: return <name>`, an exception is passed over.
TryTcpPort ==
    /\ bms_pc = "discover"
    /\ ti <= Len(protocols)
    /\ protocols[ti].via = "tcp"
    /\ \E c \in ConnectResults : CandidateChecked(~c.raised /\ c.errno = 0)
    /\ UNCHANGED <<mi, attempts, bms_result, zones, zi, success_count, zlog>>
    /\ UNCHANGED <<script, main_pc, bldVars, homeVars, callVars, last_request>>

\* _try_rest_api, _try_simple_http: one GET; `if response.status_code == 200`.
TryHttpGet ==
    /\ bms_pc = "discover"
    /\ ti <= Len(protocols)
    /\ protocols[ti].via = "get"
    /\ \E r \in Responses : CandidateChecked(StatusIs200(r))
    /\ UNCHANGED <<mi, attempts, bms_result, zones, zi, success_count, zlog>>
    /\ UNCHANGED <<script, main_pc, bldVars, homeVars, callVars, last_request>>

\* _try_soap_api: the POST to /wsdl; status 200 and 'xml' in the Content-Type.
TrySoapApi ==
    /\ bms_pc = "discover"
    /\ ti <= Len(protocols)
    /\ protocols[ti].via = "soap"
    /\ \E r \in Responses, xml \in BOOLEAN : CandidateChecked(StatusIs200(r) /\ xml)
    /\ UNCHANGED <<mi, attempts, bms_result, zones, zi, success_count, zlog>>
    /\ UNCHANGED <<script, main_pc, bldVars, homeVars, callVars, last_request>>

\* No test returned a name: `return None`.
NoProtocolFound ==
    /\ bms_pc = "discover"
    /\ ti > Len(protocols)
    /\ protocol_name' = "None"
    /\ bms_pc' = "discovered"
    /\ UNCHANGED <<ti, ep, tests>>
    /\ UNCHANGED <<mi, attempts, bms_result, zones, zi, success_count, zlog>>
    /\ UNCHANGED <<script, main_pc, bldVars, homeVars, callVars, last_request>>

\* ---- main ----
status_endpoints == 4          \* get_system_status: endpoints
zones_shown == 5               \* main: zones[:5]

\* main builds the controller and calls get_system_status.
BmsMain ==
    /\ script = "dev001"
    /\ main_pc = "none"
    /\ bms_pc = "idle"
    /\ ~stub.fixed
    /\ main_pc' = "get_system_status"
    /\ ep' = 1
    /\ UNCHANGED <<bms_pc, mi, attempts, bms_result, zones, zi, success_count, zlog>>
    /\ UNCHANGED <<script, bldVars, homeVars, discVars, callVars, last_request>>

\* One request of get_system_status: a 200 answer whose body parses is
\* returned, anything else moves on to the next endpoint, and after the last
\* the default status is returned. main only logs the value. After the first
\* call main calls discover_bms_protocol; the second call, made after a
\* successful turn-off and time.sleep(3), is the last thing main does.
GetSystemStatus ==
    /\ script = "dev001"
    /\ main_pc \in {"get_system_status", "final_status"}
    /\ \E r \in Responses, parses \in BOOLEAN :
         IF (StatusIs200(r) /\ parses) \/ ep = status_endpoints
         THEN IF main_pc = "get_system_status"
              THEN /\ main_pc' = "discover_bms_protocol"
                   /\ bms_pc' = "discover"
                   /\ ti' = 1
                   /\ ep' = 1
              ELSE /\ main_pc' = "done"
                   /\ UNCHANGED <<bms_pc, ti, ep>>
         ELSE /\ ep' = ep + 1
              /\ UNCHANGED <<main_pc, bms_pc, ti>>
    /\ UNCHANGED <<tests, protocol_name>>
    /\ UNCHANGED <<mi, attempts, bms_result, zones, zi, success_count, zlog>>
    /\ UNCHANGED <<script, bldVars, homeVars, callVars, last_request>>

\* discover_bms_protocol has returned to main, which logs the protocol (or
\* that none was found) and calls get_lighting_zones itself. The locals of
\* discover_bms_protocol are gone, and main never reads `protocol` again
\* after logging it: the record of the discovery ends here.
MainAfterDiscovery ==
    /\ script = "dev001"
    /\ main_pc = "discover_bms_protocol"
    /\ bms_pc = "discovered"
    /\ main_pc' = "get_lighting_zones"
    /\ bms_pc' = "idle"
    /\ ep' = 1
    /\ ti' = 0
    /\ tests' = <<>>
    /\ protocol_name' = "none"
    /\ UNCHANGED <<mi, attempts, bms_result, zones, zi, success_count, zlog>>
    /\ UNCHANGED <<script, bldVars, homeVars, callVars, last_request>>

\* What main does with the value z of its own get_lighting_zones call:
\* `if zones:` then len(zones) and zone.get(...) for each of zones[:5].
\* A number has no len() (TypeError), an entry that is no object has no
\* get (AttributeError); main catches neither.
ShowZones(z) ==
    IF Falsy(z) THEN "shown"
    ELSE IF z.kind = "number" THEN "TypeError"
    ELSE IF \E k \in 1..Len(z.items) : k <= zones_shown /\ ~z.items[k].obj
    THEN "AttributeError"
    ELSE "shown"

\* get_lighting_zones has returned z to main: an exception of the logging
\* ends main, otherwise main calls turn_off_all_lights.
MainZonesReturned(z) ==
    IF ShowZones(z) = "shown"
    THEN /\ main_pc' = "turn_off_all_lights"
         /\ bms_pc' = "call"
         /\ mi' = 1
    ELSE /\ main_pc' = ShowZones(z)
         /\ UNCHANGED <<bms_pc, mi>>

\* One request of the get_lighting_zones call that main makes.
MainGetLightingZones ==
    /\ script = "dev001"
    /\ main_pc = "get_lighting_zones"
    /\ \E r \in ZoneListAnswers(ep) :
         \E body \in ZoneListBodies(r) :
           IF StatusIs200(r) /\ body.kind # "unparseable"
           THEN MainZonesReturned(body) /\ ep' = ep
           ELSE IF ep < zone_list_endpoints
                THEN /\ ep' = ep + 1
                     /\ UNCHANGED <<main_pc, bms_pc, mi>>
                ELSE MainZonesReturned(NoZones) /\ ep' = ep
    /\ UNCHANGED <<attempts, bms_result, zones, zi, success_count, zlog>>
    /\ UNCHANGED <<script, bldVars, homeVars, discVars, callVars, last_request>>

\* turn_off_all_lights has returned to main: after True main sleeps three
\* seconds and asks for the status again, after False it logs the failure
\* and ends.
MainAfterTurnOff ==
    /\ script = "dev001"
    /\ main_pc = "turn_off_all_lights"
    /\ bms_pc = "done"
    /\ IF bms_result = "True"
       THEN main_pc' = "final_status" /\ ep' = 1
       ELSE main_pc' = "done" /\ ep' = ep
    /\ UNCHANGED <<bms_pc, mi, attempts, bms_result, zones, zi, success_count, zlog>>
    /\ UNCHANGED <<script, bldVars, homeVars, discVars, callVars, last_request>>

BmsInit ==
    /\ main_pc = "none"
    /\ bms_pc = "idle"
    /\ mi = 0
    /\ ep = 0
    /\ attempts = <<>>
    /\ bms_result = "none"
    /\ zones = NoZones
    /\ zi = 0
    /\ success_count = 0
    /\ zlog = <<>>
    /\ ti = 0
    /\ tests = <<>>
    /\ protocol_name = "none"
    /\ stub \in {FreeEnv} \cup Stubs
    /\ run = 1
    /\ first_run = NoRun
    /\ last_request = NoRequest

\* ===================================================== src/dev002.py =====
NoSummary == [printed |-> FALSE, succeeded |-> 0, failed |-> 0]
\* self.common_ports, in the order the dict is written (and iterated).
CommonPorts ==
    << [device_type |-> "philips_hue",    port |-> 80],
       [device_type |-> "tplink",         port |-> 9999],
       [device_type |-> "lifx",           port |-> 56700],
       [device_type |-> "home_assistant", port |-> 8123],
       [device_type |-> "tuya",           port |-> 6668],
       [device_type |-> "yeelight",       port |-> 55443],
       [device_type |-> "wiz",            port |-> 38899] >>

\* identify_device_by_port(port) over the table: the device type of the first
\* item whose port equals the argument, "None" when the loop finds none.
identify_device_by_port_last(table, port) ==
    LET hits == { k \in 1..Len(table) : table[k].port >= port }
    IN  IF hits = {} THEN "None"
        ELSE table[CHOOSE k \in hits : \A j \in hits : k <= j].device_type
identify_device_by_port(table, port) ==
    LET hits == { k \in 1..Len(table) : table[k].port = port }
    IN  IF hits = {} THEN "None"
        ELSE table[CHOOSE k \in hits : \A j \in hits : k <= j].device_type

\* Ports a caller may ask about: the ports of the table and some others.
PortInputs == { CommonPorts[k].port : k \in 1..Len(CommonPorts) } \cup {0, 22, 443, 8080}

\* One call of identify_device_by_port on the object, outside main.
IdentifyDeviceByPort ==
    /\ script = "dev002"
    /\ home_pc = "idle"
    /\ Len(lookups) < MaxLookups
    /\ \E port \in PortInputs :
         lookups' = Append(lookups, [port |-> port,
                                     ret |-> identify_device_by_port(common_ports, port)])
    /\ UNCHANGED <<common_ports, homeRun, answer>>
    /\ UNCHANGED <<script, bmsVars, bldVars>>

\* ---- what the operator types ----
NoAnswer == "(none)"
\* str.lower() and str.upper() on the answers drawn below.
ToLower(s) ==
    CASE s = "Y" -> "y"
      [] s \in {"YES", "Yes"} -> "yes"
      [] s \in {"CONFIRM", "Confirm"} -> "confirm"
      [] s = "NO" -> "no"
      [] OTHER -> s
ToUpper(s) ==
    CASE s = "y" -> "Y"
      [] s \in {"yes", "Yes"} -> "YES"
      [] s \in {"confirm", "Confirm"} -> "CONFIRM"
      [] s = "no" -> "NO"
      [] OTHER -> s

\* ThreadPoolExecutor(max_workers=5)
max_workers == 5

\* ---- the nmap output ----
\* A line of the output: a host report ("Nmap scan report for 192.168.1.10",
\* or "Nmap scan report for hue.local (192.168.1.11)" when the address has a
\* name), a port line ("80/tcp open http", "80/tcp closed http"), or
\* anything else.
ReportLine(name, ip) == [kind |-> "report", name |-> name, ip |-> ip, port |-> 0, state |-> ""]
PortLine(port, state) == [kind |-> "port", name |-> "", ip |-> "", port |-> port, state |-> state]
OtherLine == [kind |-> "other", name |-> "", ip |-> "", port |-> 0, state |-> ""]
ScanLines ==
    { ReportLine("", "192.168.1.10"), ReportLine("hue.local", "192.168.1.11"),
      PortLine(80, "open"), PortLine(56700, "open"), PortLine(22, "open"),
      PortLine(9999, "closed"), OtherLine }
\* One host with one more table port open than the pool has workers.
BusyHost ==
    <<ReportLine("", "192.168.1.10")>>
      \o [k \in 1..(max_workers + 1) |-> PortLine(CommonPorts[k].port, "open")]
ScanOutputs == SeqsUpTo(ScanLines, MaxLines) \cup {BusyHost}

\* The longest run of digits and dots a host name starts with.
LeadingDigitsAndDots(name) == IF name = "hue.local" THEN "" ELSE name

\* re.search(r'Nmap scan report for ([\d\.]+)', line): group 1, "" for no
\* match. The group must start right after "for ": a report that gives a
\* name first matches only if the name starts with digits or dots.
ip_match(line) ==
    IF line.kind # "report" THEN ""
    ELSE IF line.name = "" THEN line.ip
    ELSE LeadingDigitsAndDots(line.name)

\* re.search(r'(\d+)/\w+\s+open', line): int(group 1), 0 for no match.
port_match(line) ==
    IF line.kind = "port" /\ line.state = "open" THEN line.port ELSE 0

\* parse_nmap_output from line n on, with the locals current_ip ("" is None)
\* and devs. An entry keeps, as history, the index of the line it came from.
RECURSIVE ParseFrom(_, _, _, _, _)
ParseFrom(table, lines, n, current_ip, devs) ==
    IF n > Len(lines) THEN devs
    ELSE IF ip_match(lines[n]) # ""
    THEN ParseFrom(table, lines, n + 1, ip_match(lines[n]), devs)
    ELSE IF port_match(lines[n]) # 0 /\ current_ip # ""
    THEN LET port == port_match(lines[n])
             device_type == identify_device_by_port(table, port)
         IN  IF device_type # "None"
             THEN ParseFrom(table, lines, n + 1, current_ip,
                            Append(devs, [ip |-> current_ip, port |-> port,
                                          type |-> device_type, line |-> n]))
             ELSE ParseFrom(table, lines, n + 1, current_ip, devs)
    ELSE ParseFrom(table, lines, n + 1, current_ip, devs)

parse_nmap_output(table, lines) == ParseFrom(table, lines, 1, "", <<>>)

\* ---- the nmap run ----
\* subprocess.run(command, ..., timeout=300): the process exits with code 0
\* and some output, exits with another code, runs into the timeout, or
\* cannot be started at all (nmap is not installed).
NmapRuns ==
    { [how |-> "exit0", stdout |-> out] : out \in ScanOutputs }
    \cup { [how |-> h, stdout |-> <<>>] : h \in {"exit1", "TimeoutExpired", "Exception"} }

\* scan_network: the parsed output when nmap exits with 0, [] otherwise.
scan_network(table, nmap) ==
    IF nmap.how = "exit0" THEN parse_nmap_output(table, nmap.stdout) ELSE <<>>

\* ---- the device commands ----
control_philips_hue(r) == StatusIs200(r)
control_tplink(r) == ~r.raised
control_yeelight(r) == ~r.raised
control_wiz(r) == StatusIs200(r)
control_home_assistant(r) == FALSE

\* try_turn_off_lights(device) for a device of the given type, when the
\* network answers the one exchange of the command with r.
try_turn_off_lights(device_type, r) ==
    CASE device_type = "philips_hue" -> control_philips_hue(r)
      [] device_type = "tplink" -> control_tplink(r)
      [] device_type = "yeelight" -> control_yeelight(r)
      [] device_type = "wiz" -> control_wiz(r)
      [] device_type = "home_assistant" -> control_home_assistant(r)
      [] OTHER -> FALSE

\* The device types whose branch of try_turn_off_lights opens a connection.
SendsCommand(device_type) ==
    device_type \in {"philips_hue", "tplink", "yeelight", "wiz"}

\* ---- main and turn_off_all_lights ----

\* main builds the controller and asks "Продолжить? (y/N)". A behaviour
\* either runs main or exercises the port lookup on its own.
HomeMain ==
    /\ script = "dev002"
    /\ home_pc = "idle"
    /\ lookups = <<>>
    /\ \E a \in {"y", "Y", "yes", "n", ""} : answer' = a
    /\ home_pc' = "confirm"
    /\ UNCHANGED <<common_ports, lookups, nmap_output, devices, tasks, results, summary>>
    /\ UNCHANGED <<script, bmsVars, bldVars>>

\* confirm = input(...).lower(); if confirm != 'y': return
HomeConfirmed_any(a) == TRUE
HomeConfirmed(a) == ToLower(a) = "y"

HomeConfirm ==
    /\ script = "dev002"
    /\ home_pc = "confirm"
    /\ home_pc' = IF HomeConfirmed(answer) THEN "call" ELSE "cancelled"
    /\ answer' = NoAnswer
    /\ UNCHANGED <<common_ports, lookups, nmap_output, devices, tasks, results, summary>>
    /\ UNCHANGED <<script, bmsVars, bldVars>>

\* The call of one device: its state, the value it returned, whether its
\* branch sent a command, and (history) how many calls had returned before.
Queued == [st |-> "queued", ret |-> FALSE, sent |-> FALSE, after |-> 0]

\* if not devices
NotFound_never(devs) == FALSE
NotFound(devs) == devs = <<>>

\* The number of calls executor.map submits: one per device.
Submissions_skiplast(devs) == Len(devs) - 1
Submissions(devs) == Len(devs)

\* turn_off_all_lights up to the creation of the pool: scan_network runs
\* nmap; with no device the function returns, otherwise the executor is
\* created, with no call submitted yet.
HomeTurnOffAllLights ==
    /\ script = "dev002"
    /\ home_pc = "call"
    /\ \E nmap \in NmapRuns :
         LET devs == scan_network(common_ports, nmap)
         IN  /\ nmap_output' = nmap.stdout
             /\ devices' = devs
             /\ home_pc' = IF NotFound(devs) THEN "done" ELSE "pool"
    /\ tasks' = <<>>
    /\ UNCHANGED <<common_ports, lookups, results, summary, answer>>
    /\ UNCHANGED <<script, bmsVars, bldVars>>

\* executor.map submits the call for the next device: it is put on the
\* queue of the pool. The workers run while the main thread submits, so
\* earlier calls may be taken, and may return, before a later one is
\* submitted.
ExecutorSubmit ==
    /\ script = "dev002"
    /\ home_pc = "pool"
    /\ Len(tasks) < Submissions(devices)
    /\ tasks' = Append(tasks, Queued)
    /\ UNCHANGED <<common_ports, lookups, home_pc, nmap_output, devices, results, summary, answer>>
    /\ UNCHANGED <<script, bmsVars, bldVars>>

\* Every call that executor.map has to submit is submitted.
AllSubmitted == Len(tasks) >= Submissions(devices)

Running == { i \in 1..Len(tasks) : tasks[i].st = "running" }
Returned == { i \in 1..Len(tasks) : tasks[i].st = "done" }
AllDone == \A i \in 1..Len(tasks) : tasks[i].st = "done"

\* A free worker of the pool takes the next call from the queue.
WorkerStarts ==
    /\ script = "dev002"
    /\ home_pc = "pool"
    /\ Cardinality(Running) < max_workers
    /\ \E i \in 1..Len(tasks) :
         /\ tasks[i].st = "queued"
         /\ \A j \in 1..(i - 1) : tasks[j].st # "queued"
         /\ tasks' = [tasks EXCEPT ![i].st = "running"]
    /\ UNCHANGED <<common_ports, lookups, home_pc, nmap_output, devices, results, summary, answer>>
    /\ UNCHANGED <<script, bmsVars, bldVars>>

\* A worker's call of try_turn_off_lights returns; the value is kept in the
\* future of that call.
WorkerReturns ==
    /\ script = "dev002"
    /\ home_pc = "pool"
    /\ \E i \in Running, r \in Responses :
         tasks' = [tasks EXCEPT ![i] =
                     [st |-> "done",
                      ret |-> try_turn_off_lights(devices[i].type, r),
                      sent |-> SendsCommand(devices[i].type),
                      after |-> Cardinality(Returned)]]
    /\ UNCHANGED <<common_ports, lookups, home_pc, nmap_output, devices, results, summary, answer>>
    /\ UNCHANGED <<script, bmsVars, bldVars>>

\* list(executor.map(...)): the values of the calls in the order of the
\* devices.
executor_map_as_completed(t) ==
    [n \in 1..Len(t) |-> t[CHOOSE i \in 1..Len(t) : t[i].after = n - 1].ret]
executor_map(t) == [i \in 1..Len(t) |-> t[i].ret]

\* sum(results): the number of True values.
RECURSIVE Sum(_)
Sum(bools) ==
    IF bools = <<>> THEN 0
    ELSE (IF Head(bools) THEN 1 ELSE 0) + Sum(Tail(bools))

\* Every call has returned: the list of results is built, the pool shuts
\* down and the two counts are printed.
PoolShutdown ==
    /\ script = "dev002"
    /\ home_pc = "pool"
    /\ AllSubmitted
    /\ AllDone
    /\ results' = executor_map(tasks)
    /\ summary' = [printed |-> TRUE, succeeded |-> Sum(results'),
                   failed |-> Len(devices) - Sum(results')]
    /\ home_pc' = "done"
    /\ UNCHANGED <<common_ports, lookups, nmap_output, devices, tasks, answer>>
    /\ UNCHANGED <<script, bmsVars, bldVars>>

HomeInit ==
    /\ common_ports = CommonPorts
    /\ lookups = <<>>
    /\ home_pc = "idle"
    /\ nmap_output = <<>>
    /\ devices = <<>>
    /\ tasks = <<>>
    /\ results = <<>>
    /\ summary = NoSummary
    /\ answer = NoAnswer

\* ===================================================== src/dev003.py =====
\* self.building_protocols, in the order the dict is written (and iterated).
building_protocols ==
    << [name |-> "knx",      port |-> 3671,  protocol |-> "UDP"],
       [name |-> "modbus",   port |-> 502,   protocol |-> "TCP"],
       [name |-> "bacnet",   port |-> 47808, protocol |-> "UDP"],
       [name |-> "dali",     port |-> 50000, protocol |-> "TCP"],
       [name |-> "opcua",    port |-> 4840,  protocol |-> "TCP"],
       [name |-> "rest_api", port |-> 80,    protocol |-> "HTTP"],
       [name |-> "mqtt",     port |-> 1883,  protocol |-> "TCP"] >>

\* ---- the network the script runs in ----
Addrs == {"192.168.1.100", "plc.local"}
ListenSets == {{}, {80}, {502}, {3671}, {50000, 1883}, {80, 502, 4840}}
\* An address is unresolvable (name lookup fails), unreachable (no route),
\* silent (packets are dropped) or up with services listening on some ports.
HostStates ==
    { [kind |-> k, listen |-> {}] : k \in {"unresolvable", "unreachable", "silent"} }
    \cup { [kind |-> "up", listen |-> L] : L \in ListenSets }

Listening(h, port) == h.kind = "up" /\ port \in h.listen

\* sock.connect_ex((ip, port)) with a timeout: raises for a name that does not
\* resolve (socket.gaierror), otherwise returns 0 or the errno of the failure.
ConnectEx(h, port) ==
    CASE h.kind = "unresolvable" -> [raised |-> TRUE,  errno |-> 0]
      [] h.kind = "unreachable"  -> [raised |-> FALSE, errno |-> 101]
      [] h.kind = "silent"       -> [raised |-> FALSE, errno |-> 11]
      [] OTHER -> [raised |-> FALSE, errno |-> IF port \in h.listen THEN 0 ELSE 111]

\* sock.sendto(data, (ip, port)) on a datagram socket: raises when the name
\* does not resolve or there is no route; otherwise the datagram is sent,
\* whether or not anything listens.
SendTo(h, port) ==
    [raised |-> h.kind \in {"unresolvable", "unreachable"}]

\* check_controller(ip, port, protocol), for the host h that ip names:
\* ret is the value returned, raised says an exception left the function,
\* unclosed that it opened a socket and returned without closing it.
check_controller_udp_listen(h, port, protocol) ==
    IF protocol \in {"TCP", "HTTP"}
    THEN LET c == ConnectEx(h, port)
         IN  [ret |-> ~c.raised /\ c.errno = 0, raised |-> FALSE, unclosed |-> c.raised]
    ELSE IF protocol = "UDP"
    THEN [ret |-> ~SendTo(h, port).raised /\ Listening(h, port), raised |-> FALSE,
          unclosed |-> SendTo(h, port).raised]
    ELSE [ret |-> FALSE, raised |-> FALSE, unclosed |-> FALSE]
check_controller_anyresult(h, port, protocol) ==
    IF protocol \in {"TCP", "HTTP"}
    THEN [ret |-> ~ConnectEx(h, port).raised, raised |-> FALSE,
          unclosed |-> ConnectEx(h, port).raised]
    ELSE IF protocol = "UDP"
    THEN [ret |-> ~SendTo(h, port).raised, raised |-> FALSE,
          unclosed |-> SendTo(h, port).raised]
    ELSE [ret |-> FALSE, raised |-> FALSE, unclosed |-> FALSE]
check_controller_unguarded(h, port, protocol) ==
    IF protocol \in {"TCP", "HTTP"}
    THEN LET c == ConnectEx(h, port)
         IN  [ret |-> ~c.raised /\ c.errno = 0, raised |-> c.raised, unclosed |-> c.raised]
    ELSE IF protocol = "UDP"
    THEN LET u == SendTo(h, port)
         IN  [ret |-> ~u.raised, raised |-> u.raised, unclosed |-> u.raised]
    ELSE [ret |-> FALSE, raised |-> FALSE, unclosed |-> FALSE]
check_controller(h, port, protocol) ==
    IF protocol \in {"TCP", "HTTP"}
    THEN LET c == ConnectEx(h, port)
         IN  IF c.raised                       \* except: return False, no close
             THEN [ret |-> FALSE, raised |-> FALSE, unclosed |-> TRUE]
             ELSE [ret |-> c.errno = 0, raised |-> FALSE, unclosed |-> FALSE]
                                               \* sock.close(); return result == 0
    ELSE IF protocol = "UDP"
    THEN IF SendTo(h, port).raised             \* except: return False, no close
         THEN [ret |-> FALSE, raised |-> FALSE, unclosed |-> TRUE]
         ELSE [ret |-> TRUE, raised |-> FALSE, unclosed |-> FALSE]
                                               \* sock.close(); return True
    ELSE [ret |-> FALSE, raised |-> FALSE, unclosed |-> FALSE]  \* the final return False

\* A socket whose close() was skipped stays open until the runtime reclaims
\* the object: at once, or not while the script runs.
LeftOpen(unclosed) == { leaked \/ (unclosed /\ kept) : kept \in BOOLEAN }

\* main asks "Вы уверены ...? (yes/NO)".
BuildingMain ==
    /\ script = "dev003"
    /\ bld_pc = "idle"
    /\ bld_pc' = "confirm"
    /\ \E a \in {"yes", "YES", "Yes", "y", "no", ""} : answer' = a
    /\ UNCHANGED <<net, common_controllers, di, dj, found_controllers, probes, ci, fb,
                   rep, calls, dispatched, bld_result, leaked, rest_request>>
    /\ UNCHANGED <<script, bmsVars, common_ports, lookups, homeRun>>

\* if confirm.lower() != 'yes': return
Confirmed(a) == ToLower(a) = "yes"
\* if safety_check.upper() != 'CONFIRM': return
SafetyChecked(a) == ToUpper(a) = "CONFIRM"

\* The first answer is tested; after 'yes' main asks "... Продолжить?
\* (CONFIRM/NO)".
BuildingConfirm ==
    /\ script = "dev003"
    /\ bld_pc = "confirm"
    /\ IF Confirmed(answer)
       THEN /\ bld_pc' = "safety_check"
            /\ \E a \in {"CONFIRM", "confirm", "Confirm", "yes", "NO", ""} : answer' = a
       ELSE /\ bld_pc' = "cancelled"
            /\ answer' = NoAnswer
    /\ UNCHANGED <<net, common_controllers, di, dj, found_controllers, probes, ci, fb,
                   rep, calls, dispatched, bld_result, leaked, rest_request>>
    /\ UNCHANGED <<script, bmsVars, common_ports, lookups, homeRun>>

\* The second answer is tested; after 'CONFIRM' main builds the controller.
BuildingSafetyCheck ==
    /\ script = "dev003"
    /\ bld_pc = "safety_check"
    /\ bld_pc' = IF SafetyChecked(answer) THEN "confirmed" ELSE "cancelled"
    /\ answer' = NoAnswer
    /\ UNCHANGED <<net, common_controllers, di, dj, found_controllers, probes, ci, fb,
                   rep, calls, dispatched, bld_result, leaked, rest_request>>
    /\ UNCHANGED <<script, bmsVars, common_ports, lookups, homeRun>>

\* building_wide_light_off is called; discover_building_controllers starts.
BuildingWideLightOff ==
    /\ script = "dev003"
    /\ bld_pc = "confirmed"
    /\ bld_pc' = "discover"
    /\ di' = 1
    /\ dj' = 1
    /\ found_controllers' = <<>>
    /\ UNCHANGED <<net, common_controllers, probes, ci, fb, rep, calls, dispatched,
                   bld_result>>
    /\ UNCHANGED <<script, bmsVars, homeVars, leaked, rest_request>>

\* found_controllers.append({...}) for target ip and catalog entry p.
Found(ip, p) ==
    [ip |-> ip, port |-> p.port, protocol |-> p.name, type |-> p.protocol]

\* One pass through the body of the nested for loops: one check_controller
\* call and, when it returns True, one append.
DiscoverProbe_skiplast ==
    /\ bld_pc = "discover"
    /\ di <= Len(common_controllers)
    /\ LET ip == common_controllers[di]
           p  == building_protocols[dj]
           r  == check_controller(net[ip], p.port, p.protocol)
       IN  /\ probes' = Append(probes, [ip |-> ip, protocol |-> p.name,
                                        type |-> p.protocol, port |-> p.port,
                                        ret |-> r.ret, raised |-> r.raised])
           /\ found_controllers' =
                IF r.ret /\ ~r.raised
                THEN Append(found_controllers, Found(ip, p))
                ELSE found_controllers
           /\ bld_pc' = IF r.raised THEN "raised" ELSE bld_pc
           /\ leaked' \in LeftOpen(r.unclosed)
    /\ IF dj < Len(building_protocols) - 1
       THEN dj' = dj + 1 /\ di' = di
       ELSE dj' = 1 /\ di' = di + 1
    /\ UNCHANGED <<net, common_controllers, ci, fb, rep, calls, dispatched, bld_result>>
    /\ UNCHANGED <<script, bmsVars, homeVars, rest_request>>
DiscoverProbe ==
    /\ bld_pc = "discover"
    /\ di <= Len(common_controllers)
    /\ LET ip == common_controllers[di]
           p  == building_protocols[dj]
           r  == check_controller(net[ip], p.port, p.protocol)
       IN  /\ probes' = Append(probes, [ip |-> ip, protocol |-> p.name,
                                        type |-> p.protocol, port |-> p.port,
                                        ret |-> r.ret, raised |-> r.raised])
           /\ found_controllers' =
                IF r.ret /\ ~r.raised
                THEN Append(found_controllers, Found(ip, p))
                ELSE found_controllers
           \* an exception leaving check_controller would leave discovery too
           /\ bld_pc' = IF r.raised THEN "raised" ELSE bld_pc
           /\ leaked' \in LeftOpen(r.unclosed)
    /\ IF dj < Len(building_protocols)
       THEN dj' = dj + 1 /\ di' = di
       ELSE dj' = 1 /\ di' = di + 1
    /\ UNCHANGED <<net, common_controllers, ci, fb, rep, calls, dispatched, bld_result>>
    /\ UNCHANGED <<script, bmsVars, homeVars, rest_request>>

\* `return found_controllers`, then `if not controllers: ... return False`.
DiscoverReturns ==
    /\ bld_pc = "discover"
    /\ di > Len(common_controllers)
    /\ IF found_controllers = <<>>
       THEN bld_pc' = "done" /\ bld_result' = "False" /\ ci' = ci
       ELSE bld_pc' = "dispatch" /\ bld_result' = bld_result /\ ci' = 1
    /\ UNCHANGED <<net, common_controllers, di, dj, found_controllers, probes, fb, rep,
                   calls, dispatched>>
    /\ UNCHANGED <<script, bmsVars, homeVars, leaked, rest_request>>

\* ---- emergency_light_off and the strategies of dev003 ----
\* The list `methods` of the else branch of emergency_light_off.
fallback_methods_knx_first ==
    <<"turn_off_lights_via_knx", "turn_off_lights_via_rest",
      "turn_off_lights_via_modbus">>
fallback_methods ==
    <<"turn_off_lights_via_rest", "turn_off_lights_via_modbus",
      "turn_off_lights_via_knx">>

\* The if/elif chain of emergency_light_off: the one method of a protocol
\* name, "" for a name the chain does not list.
DirectMethod(protocol) ==
    CASE protocol = "rest_api" -> "turn_off_lights_via_rest"
      [] protocol = "modbus"   -> "turn_off_lights_via_modbus"
      [] protocol = "knx"      -> "turn_off_lights_via_knx"
      [] protocol = "bacnet"   -> "turn_off_lights_via_bacnet"
      [] protocol = "mqtt"     -> "turn_off_lights_via_mqtt"
      [] OTHER -> ""

plain_endpoints == 5    \* turn_off_lights_via_rest: endpoints
auth_endpoints == 2     \* turn_off_lights_via_rest: auth_endpoints

\* `response.status_code in [200, 201]`
StatusIn200_201(r) == ~r.raised /\ r.status \in {200, 201}

\* `for controller in controllers`: emergency_light_off is called for the
\* next controller.
EmergencyLightOff ==
    /\ bld_pc = "dispatch"
    /\ ci <= Len(found_controllers)
    /\ LET d == DirectMethod(found_controllers[ci].protocol)
       IN  IF d # ""
           THEN fb' = 0 /\ bld_pc' = d
           ELSE fb' = 1 /\ bld_pc' = fallback_methods[1]
    /\ rep' = 1
    /\ calls' = <<>>
    /\ UNCHANGED <<net, common_controllers, di, dj, found_controllers, probes, ci,
                   dispatched, bld_result>>
    /\ UNCHANGED <<script, bmsVars, homeVars, leaked, rest_request>>

\* emergency_light_off returns ok to the loop of building_wide_light_off:
\* True sets success and breaks, False goes to the next controller.
EmergencyReturns_nobreak(ok, log) ==
    /\ dispatched' = Append(dispatched, [ci |-> ci, ok |-> ok, fallback |-> fb > 0,
                                         calls |-> log])
    /\ bld_result' = IF ok THEN "True" ELSE bld_result
    /\ bld_pc' = "dispatch"
    /\ ci' = ci + 1
    /\ UNCHANGED <<fb, rep>>
EmergencyReturns(ok, log) ==
    /\ dispatched' = Append(dispatched, [ci |-> ci, ok |-> ok, fallback |-> fb > 0,
                                         calls |-> log])
    /\ IF ok
       THEN bld_result' = "True" /\ bld_pc' = "done" /\ ci' = ci
       ELSE bld_result' = bld_result /\ bld_pc' = "dispatch" /\ ci' = ci + 1
    /\ UNCHANGED <<fb, rep>>

\* The strategy at bld_pc has returned ok.
StrategyEnds_noearlyexit(ok) ==
    LET log == Append(calls, [m |-> bld_pc, ok |-> ok])
    IN  /\ calls' = log
        /\ IF fb = 0
           THEN EmergencyReturns(ok, log)
           ELSE IF fb < Len(fallback_methods)
           THEN /\ fb' = fb + 1
                /\ bld_pc' = fallback_methods[fb + 1]
                /\ rep' = 1
                /\ UNCHANGED <<ci, dispatched, bld_result>>
           ELSE EmergencyReturns(ok, log)
StrategyEnds(ok) ==
    LET log == Append(calls, [m |-> bld_pc, ok |-> ok])
    IN  /\ calls' = log
        /\ IF fb = 0
           THEN EmergencyReturns(ok, log)           \* return self.turn_off_...(ip)
           ELSE IF ok
           THEN EmergencyReturns(TRUE, log)         \* if method(ip): return True
           ELSE IF fb < Len(fallback_methods)
           THEN /\ fb' = fb + 1
                /\ bld_pc' = fallback_methods[fb + 1]
                /\ rep' = 1
                /\ UNCHANGED <<ci, dispatched, bld_result>>
           ELSE EmergencyReturns(FALSE, log)        \* the final return False

\* One request of turn_off_lights_via_rest: five plain endpoints, then two
\* endpoints with basic authentication.
TurnOffLightsViaRest ==
    /\ bld_pc = "turn_off_lights_via_rest"
    /\ \E r \in Responses :
         LET ok == (rep <= plain_endpoints /\ StatusIn200_201_202(r))
                     \/ (rep > plain_endpoints /\ StatusIn200_201(r))
         IN  /\ rest_request' =
                  [who |-> IF rep <= plain_endpoints THEN "endpoints" ELSE "auth_endpoints",
                   r |-> r, accepted |-> ok]
             /\ IF ok
                THEN StrategyEnds(TRUE)
                ELSE IF rep < plain_endpoints + auth_endpoints
                     THEN /\ rep' = rep + 1
                          /\ UNCHANGED <<bld_pc, ci, fb, calls, dispatched, bld_result>>
                     ELSE StrategyEnds(FALSE)
    /\ UNCHANGED <<net, common_controllers, di, dj, found_controllers, probes>>
    /\ UNCHANGED <<script, bmsVars, homeVars, leaked>>

\* The try/except of a raw-protocol strategy: `return True` when connect,
\* send and recv (or sendto) all complete; when one of them raises, the
\* `except Exception` clause returns False.
RawReturn_uncaught(completed) == IF completed THEN "True" ELSE "Raise"
RawReturn(completed) == IF completed THEN "True" ELSE "False"

\* A raw-protocol strategy runs: it opens a socket, and closes it only when
\* every call before sock.close() has completed. emergency_light_off and
\* building_wide_light_off have no try of their own: an exception leaving
\* the strategy would leave both.
RawStrategy(name) ==
    /\ bld_pc = name
    /\ \E completed \in BOOLEAN :
         LET out == RawReturn(completed)
         IN  /\ IF out = "Raise"
                THEN /\ bld_pc' = "raised"
                     /\ UNCHANGED <<ci, fb, rep, calls, dispatched, bld_result>>
                ELSE StrategyEnds(out = "True")
             \* sock.close() is the last call of the try body
             /\ leaked' \in LeftOpen(~completed)
    /\ UNCHANGED <<net, common_controllers, di, dj, found_controllers, probes>>
    /\ UNCHANGED <<script, bmsVars, homeVars, rest_request>>

TurnOffLightsViaModbus ==
    /\ script = "dev003"
    /\ RawStrategy("turn_off_lights_via_modbus")
TurnOffLightsViaKnx ==
    /\ script = "dev003"
    /\ RawStrategy("turn_off_lights_via_knx")
TurnOffLightsViaBacnet ==
    /\ script = "dev003"
    /\ RawStrategy("turn_off_lights_via_bacnet")
TurnOffLightsViaMqtt ==
    /\ script = "dev003"
    /\ RawStrategy("turn_off_lights_via_mqtt")

\* The loop over the controllers ends without a break: `return success`.
BuildingWideReturns ==
    /\ bld_pc = "dispatch"
    /\ ci > Len(found_controllers)
    /\ bld_pc' = "done"
    /\ bld_result' = "False"
    /\ UNCHANGED <<net, common_controllers, di, dj, found_controllers, probes, ci, fb,
                   rep, calls, dispatched>>
    /\ UNCHANGED <<script, bmsVars, homeVars, leaked, rest_request>>

Range(s) == { s[k] : k \in 1..Len(s) }

\* The target list and the network are the script's inputs; an address no
\* target names plays no part.
BldInit ==
    /\ common_controllers \in SeqsUpTo(Addrs, MaxTargets)
    /\ net \in [Addrs -> HostStates]
    /\ \A a \in Addrs \ Range(common_controllers) :
         net[a] = [kind |-> "unresolvable", listen |-> {}]
    /\ bld_pc = "idle"
    /\ di = 0
    /\ dj = 0
    /\ found_controllers = <<>>
    /\ probes = <<>>
    /\ ci = 0
    /\ fb = 0
    /\ rep = 0
    /\ calls = <<>>
    /\ dispatched = <<>>
    /\ bld_result = "none"
    /\ leaked = FALSE
    /\ rest_request = NoRequest

\* ================================================== the specification ====
Init ==
    /\ script \in {"dev001", "dev002", "dev003"}
    /\ BmsInit
    /\ HomeInit
    /\ BldInit
    /\ script # "dev001" => stub = FreeEnv
    /\ script # "dev003" => common_controllers = <<>>

Next ==
    \/ BmsMain
    \/ GetSystemStatus
    \/ MainAfterDiscovery
    \/ MainGetLightingZones
    \/ MainAfterTurnOff
    \/ DiscoverBmsProtocol
    \/ TryTcpPort
    \/ TryHttpGet
    \/ TrySoapApi
    \/ NoProtocolFound
    \/ TurnOffAllLights
    \/ TurnOffAllLightsAgain
    \/ InvokeMethod
    \/ MethodsExhausted
    \/ TurnOffViaRest
    \/ TurnOffViaSoap
    \/ TurnOffViaSimpleHttp
    \/ TurnOffViaBacnetSimulation
    \/ GetLightingZones
    \/ ZoneLoopNext
    \/ ZoneLoopEnd
    \/ TurnOffZone
    \/ Sleep
    \/ IdentifyDeviceByPort
    \/ HomeMain
    \/ HomeConfirm
    \/ HomeTurnOffAllLights
    \/ ExecutorSubmit
    \/ WorkerStarts
    \/ WorkerReturns
    \/ PoolShutdown
    \/ BuildingMain
    \/ BuildingConfirm
    \/ BuildingSafetyCheck
    \/ BuildingWideLightOff
    \/ DiscoverProbe
    \/ DiscoverReturns
    \/ EmergencyLightOff
    \/ TurnOffLightsViaRest
    \/ TurnOffLightsViaModbus
    \/ TurnOffLightsViaKnx
    \/ TurnOffLightsViaBacnet
    \/ TurnOffLightsViaMqtt
    \/ BuildingWideReturns

Spec == Init /\ [][Next]_vars

\* The calls on a BMSLightController alone, with the progress the script
\* makes: it is one sequential thread, every request has a timeout and the
\* sleep is finite, so a step that can be taken is taken.
BmsNext ==
    \/ BmsMain
    \/ GetSystemStatus
    \/ MainAfterDiscovery
    \/ MainGetLightingZones
    \/ MainAfterTurnOff
    \/ DiscoverBmsProtocol
    \/ TryTcpPort
    \/ TryHttpGet
    \/ TrySoapApi
    \/ NoProtocolFound
    \/ TurnOffAllLights
    \/ TurnOffAllLightsAgain
    \/ InvokeMethod
    \/ MethodsExhausted
    \/ TurnOffViaRest
    \/ TurnOffViaSoap
    \/ TurnOffViaSimpleHttp
    \/ TurnOffViaBacnetSimulation
    \/ GetLightingZones
    \/ ZoneLoopNext
    \/ ZoneLoopEnd
    \/ TurnOffZone
    \/ Sleep

BmsOnlyInit == Init /\ script = "dev001"

LiveSpec == BmsOnlyInit /\ [][BmsNext]_vars /\ WF_vars(BmsNext)

\* ============================================================ claims =====
Failed(out) == out \in {"False", "Raise"}
ZoneMethod == "_turn_off_zone_by_zone"


\* ---- C1 ----
\* A finished run of the fallback list of emergency_light_off: the methods
\* called are a prefix of the list, all but the last failed, the result is
\* the last one's, and a failure means the whole list was called.
FallbackRunInOrder(d) ==
    /\ Len(d.calls) \in 1..Len(fallback_methods)
    /\ \A k \in 1..Len(d.calls) : d.calls[k].m = fallback_methods[k]
    /\ \A k \in 1..(Len(d.calls) - 1) : ~d.calls[k].ok
    /\ d.ok = d.calls[Len(d.calls)].ok
    /\ ~d.ok => Len(d.calls) = Len(fallback_methods)

\* C1: in every dispatch the strategies invoked so far are the first ones of
\* the ordered list, in list order and each once; all but the last one
\* invoked have failed; the dispatch ends with True exactly at the first
\* strategy that succeeds (nothing after it is invoked) and with False only
\* after the whole list has been invoked and has failed. This holds for
\* turn_off_all_lights and for the fallback list of emergency_light_off.
C1_StrategyOrder ==
    /\ Len(attempts) <= Len(methods)
    /\ \A k \in 1..Len(attempts) : attempts[k].m = methods[k]
    /\ \A k \in 1..(Len(attempts) - 1) : Failed(attempts[k].out)
    /\ bms_pc = "done" =>
          \/ /\ bms_result = "True"
             /\ attempts # <<>>
             /\ attempts[Len(attempts)].out = "True"
          \/ /\ bms_result = "False"
             /\ Len(attempts) = Len(methods)
             /\ Failed(attempts[Len(attempts)].out)
    /\ \A n \in 1..Len(dispatched) :
          dispatched[n].fallback => FallbackRunInOrder(dispatched[n])
    /\ fb > 0 =>
          /\ Len(calls) <= Len(fallback_methods)
          /\ \A k \in 1..Len(calls) : calls[k].m = fallback_methods[k]
          /\ \A k \in 1..(Len(calls) - 1) : ~calls[k].ok

\* Only the third of the five strategies succeeds: 1 and 2 failed, 3
\* succeeded, 4 and 5 were never invoked.
C1_Witness ==
    /\ bms_pc = "done"
    /\ Len(attempts) = 3
    /\ Failed(attempts[1].out) /\ Failed(attempts[2].out)
    /\ attempts[3].out = "True"
    /\ bms_result = "True"

\* ---- C2 ----
\* C2: the zone fallback is invoked only when every other strategy of the
\* list has been invoked and has failed, nothing is invoked after it, and
\* the dispatch ends with the zone fallback's own result.
C2_ZoneFallbackLast ==
    \A k \in 1..Len(attempts) :
        attempts[k].m = ZoneMethod =>
            /\ { attempts[j].m : j \in 1..(k - 1) } = Range(methods) \ {ZoneMethod}
            /\ \A j \in 1..(k - 1) : Failed(attempts[j].out)
            /\ k = Len(attempts)
            /\ bms_pc = "done" => bms_result = attempts[k].out

\* The four bulk strategies failed and the zone fallback turned zones off.
C2_Witness ==
    /\ bms_pc = "done"
    /\ Len(attempts) = Len(methods)
    /\ attempts[Len(attempts)].m = ZoneMethod
    /\ bms_result = "True"

\* ---- C3 ----
\* Positions of zlog: command starts, command ends, by outcome.
Starts == { p \in 1..Len(zlog) : zlog[p].ev = "start" }
Ends == { p \in 1..Len(zlog) : zlog[p].ev = "end" }
EndsOk == { p \in Ends : zlog[p].ok }
EndsFailed == { p \in Ends : ~zlog[p].ok }

\* The zone fallback has run its loop to the end over a list of zone objects.
ZoneRunOver ==
    /\ Len(attempts) = Len(methods)
    /\ attempts[Len(attempts)].m = ZoneMethod
    /\ attempts[Len(attempts)].out # "running"
    /\ zones.kind = "list" /\ zones.items # <<>>
    /\ \A k \in 1..Len(zones.items) : zones.items[k].obj

\* C3: once the zone fallback has gone through a non-empty list of zones,
\* success_count is the number of zones whose off-command succeeded, the
\* zones whose off-command failed are all the others, and the fallback
\* returns True exactly when success_count > 0.
C3_ZoneAggregation ==
    ZoneRunOver =>
        LET succeeded == Cardinality(EndsOk)
            failed == Cardinality(EndsFailed)
        IN  /\ success_count = succeeded
            /\ succeeded + failed = Len(zones.items)
            /\ \A k \in 1..Len(zones.items) :
                 Cardinality({ p \in Ends : zlog[p].zone = k }) = 1
            /\ (attempts[Len(attempts)].out = "True") <=> (success_count > 0)

\* Three zones, only zone 2 fails: 2 successes, 1 failure, overall True.
C3_Witness ==
    /\ ZoneRunOver
    /\ Len(zones.items) = 3
    /\ \E p \in EndsFailed : zlog[p].zone = 2
    /\ success_count = 2
    /\ Cardinality(EndsFailed) = 1
    /\ bms_result = "True"

\* ---- C4 ----
\* C4: every zone command that follows another zone's command is issued
\* right after a wait of the inter-zone delay, whatever the outcome of the
\* command before it.
C4_DelayAfterEveryZone ==
    \A p \in Starts : p > 1 => zlog[p - 1].ev = "sleep"

\* ---- C5 ----
\* C5: the zone commands are issued in the order of the enumerated list (the
\* k-th command is for the k-th zone of the list), a command starts only when
\* every command before it has completed, and a run over the whole list
\* commands each zone exactly once.
C5_ZonesInOrderOneAtATime ==
    /\ \A p \in Starts :
          LET k == Cardinality({ q \in Starts : q <= p })
          IN  /\ zlog[p].zone = k
              /\ zlog[p].id = ZoneIdOf(zones.items[k])
              /\ Cardinality({ q \in Ends : q < p }) = k - 1
    /\ Cardinality(Starts) - Cardinality(Ends) \in {0, 1}
    /\ ZoneRunOver =>
          \A k \in 1..Len(zones.items) :
             Cardinality({ p \in Starts : zlog[p].zone = k }) = 1

\* Three zones have been commanded, one after the other.
C5_Witness ==
    /\ ZoneRunOver
    /\ Len(zones.items) = 3
    /\ Cardinality(Starts) = 3
    /\ zones.items[1] # zones.items[2]

\* ---- C6 ----
IsTcp(p) == p.type \in {"TCP", "HTTP"}
IsUdp(p) == p.type = "UDP"
\* The transport operation of probe p failed (timeout, refused, no route,
\* name not resolved).
TransportError(p) ==
    \/ IsTcp(p) /\ LET c == ConnectEx(net[p.ip], p.port)
                   IN  c.raised \/ c.errno # 0
    \/ IsUdp(p) /\ SendTo(net[p.ip], p.port).raised

\* C6: no check_controller call raises, and every probe whose transport
\* operation failed returned False.
C6_ProbeNeverRaises ==
    /\ bld_pc # "raised"
    /\ \A n \in 1..Len(probes) :
          /\ ~probes[n].raised
          /\ TransportError(probes[n]) => ~probes[n].ret

\* Probes of a name that does not resolve (the socket call raises), both
\* over TCP and over UDP, have returned False.
C6_Witness ==
    /\ \E n \in 1..Len(probes) :
          /\ net[probes[n].ip].kind = "unresolvable"
          /\ IsTcp(probes[n]) /\ ~probes[n].ret
    /\ \E n \in 1..Len(probes) :
          /\ net[probes[n].ip].kind = "unresolvable"
          /\ IsUdp(probes[n]) /\ ~probes[n].ret
    /\ \E n \in 1..Len(probes) :
          /\ net[probes[n].ip].kind = "silent"
          /\ IsTcp(probes[n]) /\ ~probes[n].ret

\* ---- C7 ----
\* C7: a UDP probe returns True exactly when its sendto completed without
\* raising, whether or not anything listens on the port.
C7_UdpProbe ==
    \A n \in 1..Len(probes) :
        IsUdp(probes[n]) =>
            (probes[n].ret <=> ~SendTo(net[probes[n].ip], probes[n].port).raised)

\* A UDP probe of a port nothing listens on has returned True.
C7_Witness ==
    \E n \in 1..Len(probes) :
        /\ IsUdp(probes[n])
        /\ ~Listening(net[probes[n].ip], probes[n].port)
        /\ probes[n].ret

\* ---- C8 ----
DiscoveryOver == bld_pc \in {"dispatch", "done"} \/ (bld_pc = "discover" /\ di > Len(common_controllers))
\* No target has a listening service on any cataloged port.
NothingListens ==
    \A a \in Range(common_controllers) :
        \A j \in 1..Len(building_protocols) :
            ~Listening(net[a], building_protocols[j].port)

\* C8 as stated: with no listening service on any cataloged port of any
\* target, discovery returns an empty list.
C8_EmptyWhenNothingListens ==
    (DiscoveryOver /\ NothingListens) => found_controllers = <<>>

\* C8 as amended: with no listening service on any cataloged port of any
\* target, discovery returns no TCP or HTTP entry; it returns exactly one
\* entry for each probe of a UDP catalog entry whose datagram was sent
\* without a local error, so the list is empty only if every such send fails.
C8_OnlyUdpWhenNothingListens ==
    (DiscoveryOver /\ NothingListens) =>
        /\ \A k \in 1..Len(found_controllers) :
              /\ found_controllers[k].type = "UDP"
              /\ ~SendTo(net[found_controllers[k].ip], found_controllers[k].port).raised
        /\ Len(found_controllers) =
              Cardinality({ n \in 1..Len(probes) :
                  IsUdp(probes[n]) /\ ~SendTo(net[probes[n].ip], probes[n].port).raised })
        /\ found_controllers = <<>> <=>
              \A a \in Range(common_controllers) :
                  net[a].kind \in {"unresolvable", "unreachable"}

\* Nothing listens on the target, and discovery has returned its two UDP
\* protocols.
C8_Witness ==
    /\ DiscoveryOver
    /\ NothingListens
    /\ Len(common_controllers) = 1
    /\ Len(found_controllers) = 2

\* ---- C9 ----
NProtocols == Len(building_protocols)
ReachableProbes == { n \in 1..Len(probes) : probes[n].ret }

\* C9: when discovery returns it has probed every pair of a target (a
\* position of the target list) and a catalog entry exactly once, and the
\* list returned holds one controller for each probe that returned True and
\* nothing else: it is the list of those probes, whatever their outcomes.
C9_CrossProduct ==
    DiscoveryOver =>
        /\ Len(probes) = Len(common_controllers) * NProtocols
        /\ \A i \in 1..Len(common_controllers) : \A j \in 1..NProtocols :
              LET p == probes[(i - 1) * NProtocols + j]
              IN  /\ p.ip = common_controllers[i]
                  /\ p.protocol = building_protocols[j].name
                  /\ p.port = building_protocols[j].port
        /\ { <<c.ip, c.protocol>> : c \in Range(found_controllers) }
              = { <<probes[n].ip, probes[n].protocol>> : n \in ReachableProbes }
        /\ Len(found_controllers) = Cardinality(ReachableProbes)

\* Two different targets were probed; some probes found a controller and
\* some did not.
C9_Witness ==
    /\ DiscoveryOver
    /\ Len(common_controllers) = 2
    /\ common_controllers[1] # common_controllers[2]
    /\ found_controllers # <<>>
    /\ Len(found_controllers) < Len(probes)
    /\ \E k \in 1..Len(found_controllers) : found_controllers[k].type = "TCP"

\* ---- C10 ----
\* C10: the list discovery returns never holds two entries with the same
\* target and protocol, also when the target list names an address twice.
C10_NoDuplicatePairs ==
    \A k, l \in 1..Len(found_controllers) :
        (k # l) =>
            <<found_controllers[k].ip, found_controllers[k].protocol>>
              # <<found_controllers[l].ip, found_controllers[l].protocol>>

\* ---- C11 ----
\* The fixed order of the protocol tests, by the names they return.
ProbeOrder ==
    <<"BACnet", "Modbus", "KNX", "LonWorks", "REST API", "SOAP API", "Simple HTTP">>

\* discover_bms_protocol runs the tests in the fixed order, every test before
\* the last one run returned None, and it returns the name of the first test
\* that returns one, None only after all seven returned None.
FirstSucceedingTest ==
    /\ Len(tests) <= Len(ProbeOrder)
    /\ \A k \in 1..Len(tests) : tests[k].result \in {"None", ProbeOrder[k]}
    /\ \A k \in 1..(Len(tests) - 1) : tests[k].result = "None"
    /\ bms_pc # "discovered" => protocol_name = "none"
    /\ bms_pc = "discovered" =>
          IF protocol_name = "None"
          THEN /\ Len(tests) = Len(ProbeOrder)
               /\ tests[Len(tests)].result = "None"
          ELSE /\ tests # <<>>
               /\ protocol_name = tests[Len(tests)].result
               /\ protocol_name = ProbeOrder[Len(tests)]

\* discover_building_controllers holds at most one entry for a target.
AtMostOneProtocolPerTarget ==
    \A k, l \in 1..Len(found_controllers) :
        (k # l) => found_controllers[k].ip # found_controllers[l].ip

\* Every entry of discover_building_controllers names one catalog entry, and
\* a target has an entry for every catalog entry whose probe returned True.
OneCatalogEntryPerController ==
    /\ \A k \in 1..Len(found_controllers) :
          \E j \in 1..Len(building_protocols) :
              /\ building_protocols[j].name = found_controllers[k].protocol
              /\ building_protocols[j].port = found_controllers[k].port
              /\ \A i \in 1..Len(building_protocols) :
                    building_protocols[i].name = found_controllers[k].protocol => i = j
    /\ DiscoveryOver =>
          \A a \in Range(common_controllers) :
              { c.protocol : c \in { d \in Range(found_controllers) : d.ip = a } }
                = { probes[n].protocol :
                      n \in { m \in 1..Len(probes) : probes[m].ip = a /\ probes[m].ret } }

\* C11 as stated: discover_bms_protocol returns the name of the first test, in
\* the order BACnet, Modbus, KNX, LonWorks, REST, SOAP, simple HTTP, that
\* succeeds (None if none does), and discovery yields at most one protocol
\* per target.
C11_OneProtocolPerTarget ==
    FirstSucceedingTest /\ AtMostOneProtocolPerTarget

\* C11 as amended: discover_bms_protocol returns the name of the first test
\* in the fixed order that succeeds (None if none does); every entry of
\* discover_building_controllers carries exactly one protocol of the catalog,
\* and a target gets one entry for every catalog entry whose probe returned
\* True, not only for the first.
C11_OneProtocolPerEntry ==
    FirstSucceedingTest /\ OneCatalogEntryPerController

\* The four socket tests returned None and the REST test returned its name.
C11_Witness ==
    /\ bms_pc = "discovered"
    /\ protocol_name = "REST API"
    /\ Len(tests) = 5

\* ---- C12 ----
\* C12: every HTTP command attempt (bulk REST, authenticated REST, SOAP,
\* simple HTTP, BACnet over HTTP, per-zone off) is taken for a success exactly
\* when a response came and its status is 200, 201 or 202.
C12_SuccessIs200_201_202 ==
    /\ last_request.who # "" =>
          (last_request.accepted <=>
              (~last_request.r.raised /\ last_request.r.status \in {200, 201, 202}))
    /\ rest_request.who # "" =>
          (rest_request.accepted <=>
              (~rest_request.r.raised /\ rest_request.r.status \in {200, 201, 202}))

\* ---- C13 ----
\* get_lighting_zones has returned to _turn_off_zone_by_zone something that
\* is not a non-empty list, and the strategy has ended on it; ep is still the
\* index of the endpoint whose answer was the last one read.
ReturnedNoZoneList ==
    /\ attempts # <<>>
    /\ attempts[Len(attempts)].m = ZoneMethod
    /\ attempts[Len(attempts)].out # "running"
    /\ zones.kind # "list" \/ zones.items = <<>>

\* C13: get_lighting_zones goes through its endpoints in order and returns
\* the first non-empty zone list that parses: a 200 answer with an empty list
\* or an unparseable body does not end the search, so a result that is not a
\* non-empty list means that every endpoint was asked.
C13_FirstNonEmptyZoneList ==
    ReturnedNoZoneList => ep = zone_list_endpoints

\* ---- C14 ----
\* C14: no failure of a strategy leaves a dispatch as an exception. A call
\* of turn_off_all_lights ends with True or False, also when the zone data
\* is malformed (an entry that is no object, a body that is no list), and
\* every strategy it invoked ended with a return value; no exception leaves
\* emergency_light_off or building_wide_light_off, and every finished
\* emergency_light_off gave True or False, each of its strategies too. An
\* exception that ends main of dev001 comes from main's own logging of the
\* zone list, before the dispatch is called, and not out of a dispatch.
C14_NoExceptionEscapes ==
    /\ bms_pc # "raised"
    /\ main_pc \in {"AttributeError", "TypeError"} => (bms_pc = "idle" /\ attempts = <<>>)
    /\ bms_pc = "done" => bms_result \in {"True", "False"}
    /\ \A k \in 1..Len(attempts) : attempts[k].out \in {"running", "True", "False"}
    /\ bld_pc # "raised"
    /\ bld_pc = "done" => bld_result \in {"True", "False"}
    /\ \A k \in 1..Len(dispatched) :
          /\ dispatched[k].ok \in BOOLEAN
          /\ \A n \in 1..Len(dispatched[k].calls) : dispatched[k].calls[n].ok \in BOOLEAN

\* The zone list held an entry that is no object: the per-zone strategy ended
\* with False and so did the dispatch.
C14_Witness ==
    /\ bms_pc = "done"
    /\ bms_result = "False"
    /\ zi \in 1..Len(zones.items)
    /\ ~zones.items[zi].obj
    /\ attempts[Len(attempts)].m = ZoneMethod
    /\ attempts[Len(attempts)].out = "False"

\* ---- C15 ----
\* C15: every socket a probe or a raw-protocol command attempt opens is
\* closed on every exit path: once check_controller or a raw strategy has
\* returned, no socket it opened is still open.
C15_EverySocketClosed ==
    ~leaked

\* ---- C16 ----
\* C16: no connection-holding object that one strategy of a dispatch has used
\* is used again by a later strategy of that dispatch: any two strategies
\* invoked by one call of turn_off_all_lights send through different
\* sessions.
C16_NoSessionReuse ==
    \A j, k \in 1..Len(attempts) :
        (j < k) => attempts[j].session # attempts[k].session

\* ---- C17 ----
\* A call of turn_off_all_lights is running.
Dispatching == bms_pc \notin {"idle", "discover", "discovered", "done"}

\* C17: every dispatch terminates. Inside one call of turn_off_all_lights the
\* index of the strategy being tried never goes back and never leaves
\* 1..Len(methods)+1, and a call that is running always reaches its end,
\* where the result is True or False.
C17_DispatchTerminates ==
    /\ [][(Dispatching /\ Dispatching') => (mi' >= mi /\ mi' <= Len(methods) + 1)]_vars
    /\ [](bms_pc = "done" => bms_result \in {"True", "False"})
    /\ Dispatching ~> (bms_pc = "done")

\* All bulk strategies failed, the per-zone fallback went through a list of
\* three zones, and the dispatch has ended.
C17_Witness ==
    /\ bms_pc = "done"
    /\ Len(attempts) = Len(methods)
    /\ Len(zones.items) = 3
    /\ zi = 4

\* ---- C18 ----
\* C18: a second call of turn_off_all_lights against a controller that
\* answers as it did to the first invokes the same strategies with the same
\* outcomes and returns the same: while it runs, what it has invoked is a
\* prefix of what the first call invoked, and when it ends the two calls
\* agree entirely, so a first success is followed by a second success.
C18_SecondDispatchSame ==
    run = 2 =>
        /\ Len(attempts) <= Len(first_run.attempts)
        /\ \A k \in 1..Len(attempts) :
              /\ attempts[k].m = first_run.attempts[k].m
              /\ attempts[k].out \in {"running", first_run.attempts[k].out}
        /\ bms_pc = "done" =>
              /\ attempts = first_run.attempts
              /\ bms_result = first_run.result
              /\ first_run.result = "True" => bms_result = "True"

\* Both calls have ended with True at the third strategy, after the first
\* two failed.
C18_Witness ==
    /\ run = 2
    /\ bms_pc = "done"
    /\ first_run.result = "True"
    /\ bms_result = "True"
    /\ Len(attempts) = 3
    /\ attempts[1].out = "False"

\* ---- C19 ----
\* The responder that returns 200 only on /api/lighting/all/off, the first
\* endpoint of _turn_off_via_rest.
OnlyAllOff == [fixed |-> TRUE, who |-> "_turn_off_via_rest", ep |-> 1, status |-> 200,
               zones_ep |-> 0, zone_ok |-> {}]

\* Against OnlyAllOff the dispatch ends with True through the REST strategy,
\* and every strategy invoked before the last one is recorded as failed.
RestSucceeds ==
    /\ \A k \in 1..(Len(attempts) - 1) : Failed(attempts[k].out)
    /\ (stub = OnlyAllOff /\ bms_pc = "done") =>
          /\ bms_result = "True"
          /\ attempts[Len(attempts)].m = "_turn_off_via_rest"
          /\ attempts[Len(attempts)].out = "True"

\* C19: against a responder that returns 200 only on /api/lighting/all/off
\* the dispatch succeeds through the REST strategy, the strategies before it
\* are recorded as failed, and the result of the dispatch reports the id of
\* the REST strategy.
C19_ResultReportsStrategy ==
    /\ RestSucceeds
    /\ (stub = OnlyAllOff /\ bms_pc = "done") =>
          StrategyIdOf(bms_result) = "_turn_off_via_rest"

\* What the code does in the case of C19: against that responder
\* turn_off_all_lights returns True through the REST strategy at its first
\* request: the path is the first endpoint of the first strategy, so one
\* request is sent and no strategy or endpoint is tried before or after it.
C19_RestSucceedsAtFirstRequest ==
    /\ RestSucceeds
    /\ bms_result \in {"none", "True", "False"}
    /\ stub = OnlyAllOff =>
          /\ Len(attempts) <= 1
          /\ \A k \in 1..Len(attempts) : attempts[k].m = "_turn_off_via_rest"
          /\ bms_pc \in {"idle", "call", "_turn_off_via_rest", "done"}
          /\ bms_pc = "_turn_off_via_rest" => ep = 1
          /\ bms_pc = "done" =>
                /\ ep = 1
                /\ last_request = [who |-> "_turn_off_via_rest",
                                   r |-> [raised |-> FALSE, status |-> 200],
                                   accepted |-> TRUE]

\* The first dispatch against that responder has ended with True.
C19_Witness ==
    /\ stub = OnlyAllOff
    /\ run = 1
    /\ bms_pc = "done"
    /\ bms_result = "True"

\* ---- C20 ----
\* The port table as the specification gives it.
TablePairs ==
    { <<"philips_hue", 80>>, <<"tplink", 9999>>, <<"lifx", 56700>>,
      <<"home_assistant", 8123>>, <<"tuya", 6668>>, <<"yeelight", 55443>>,
      <<"wiz", 38899>> }

\* C20: identify_device_by_port is a pure lookup over common_ports. It
\* returns the device type whose port equals the argument and None for a
\* port that is not in the table; two calls with the same port return the
\* same; no call changes the table; and the ports of the table are pairwise
\* distinct, so the type returned is the only one with that port.
C20_PureLookup ==
    /\ common_ports = CommonPorts
    /\ { <<common_ports[k].device_type, common_ports[k].port>> :
            k \in 1..Len(common_ports) } = TablePairs
    /\ \A j, k \in 1..Len(common_ports) :
          (j # k) => common_ports[j].port # common_ports[k].port
    /\ \A n \in 1..Len(lookups) :
          /\ lookups[n].ret # "None" => <<lookups[n].ret, lookups[n].port>> \in TablePairs
          /\ lookups[n].ret = "None" <=> (\A t \in TablePairs : t[2] # lookups[n].port)
    /\ \A m, n \in 1..Len(lookups) :
          lookups[m].port = lookups[n].port => lookups[m].ret = lookups[n].ret

\* Two calls with port 9999 returned tplink both times.
C20_Witness ==
    /\ Len(lookups) = 2
    /\ lookups[1] = [port |-> 9999, ret |-> "tplink"]
    /\ lookups[2].port = 9999

\* ---------------------------------------------------------------- C21 ----
\* The run of dev002 is over and its summary was printed.
HomeSummarised == home_pc = "done" /\ summary.printed
\* The indices of the dispatch records of controller k.
DispatchesOf(k) == { n \in 1..Len(dispatched) : dispatched[n].ci = k }
\* dev002: one call per device, each has returned once, one result per
\* device, and the two printed counts add up to the number of devices.
HomeAccountsForEveryDevice ==
    /\ Len(tasks) = Len(devices)
    /\ \A i \in 1..Len(tasks) : tasks[i].st = "done"
    /\ Len(results) = Len(devices)
    /\ summary.succeeded = Cardinality({ i \in 1..Len(results) : results[i] })
    /\ summary.failed = Cardinality({ i \in 1..Len(results) : ~results[i] })
    /\ summary.succeeded + summary.failed = Len(devices)

\* C21: at the end of a run every discovered controller or device was
\* dispatched exactly once, in dev003 as in dev002, and the counts of the
\* summary add up to the number found.
C21_EveryControllerDispatchedOnce ==
    /\ HomeSummarised => HomeAccountsForEveryDevice
    /\ (bld_pc = "done" /\ found_controllers # <<>>) =>
          \A k \in 1..Len(found_controllers) : Cardinality(DispatchesOf(k)) = 1

\* What the code does in the case of C21: dev002 accounts for every device
\* (one call and one result per device, succeeded plus failed equals the
\* number of devices found); dev003 dispatches no controller twice and, at
\* the end of a run, has dispatched exactly the controllers up to the first
\* success (all of them when none succeeded).
C21_SummaryAccounts ==
    /\ HomeSummarised => HomeAccountsForEveryDevice
    /\ \A k \in 1..Len(found_controllers) : Cardinality(DispatchesOf(k)) <= 1
    /\ (bld_pc = "done" /\ found_controllers # <<>>) =>
          /\ dispatched # <<>>
          /\ \A n \in 1..Len(dispatched) : dispatched[n].ci = n
          /\ \A n \in 1..(Len(dispatched) - 1) : ~dispatched[n].ok
          /\ ~dispatched[Len(dispatched)].ok => Len(dispatched) = Len(found_controllers)

\* dev002 has printed a summary with a success and a failure.
C21_HomeSummaryReached ==
    /\ HomeSummarised
    /\ Len(devices) >= 2
    /\ summary.succeeded >= 1
    /\ summary.failed >= 1

\* dev003 has ended with True and a discovered controller was never
\* dispatched.
C21_ControllerLeftOut ==
    /\ bld_pc = "done"
    /\ bld_result = "True"
    /\ Len(dispatched) < Len(found_controllers)

\* ---------------------------------------------------------------- C22 ----
\* A call that has returned keeps its value while the pool runs: no other
\* worker's return touches it.
ReturnedCallsKept ==
    \A i \in Returned : home_pc' = "pool" => tasks'[i] = tasks[i]

\* C22: at most max_workers calls run at a time; a worker's return writes
\* nothing but the result of its own call; and whatever the order in which
\* the workers return, result i is the value the call for device i returned
\* and the printed success count is the number of calls that returned True.
C22_NoResultLostOrDoubled ==
    /\ [](Cardinality(Running) <= max_workers)
    /\ [][ReturnedCallsKept]_vars
    /\ [](HomeSummarised =>
            /\ Len(results) = Len(devices)
            /\ \A i \in 1..Len(devices) : results[i] = tasks[i].ret
            /\ summary.succeeded = Cardinality({ i \in 1..Len(tasks) : tasks[i].ret }))

\* A run with more devices than workers in which a later device returned
\* before an earlier one, with a different value.
C22_Witness ==
    /\ HomeSummarised
    /\ Len(devices) > max_workers
    /\ \E i, j \in 1..Len(tasks) :
         /\ i < j
         /\ tasks[i].after > tasks[j].after
         /\ tasks[i].ret # tasks[j].ret

\* ---------------------------------------------------------------- C23 ----
\* The strategy the claim registers for a protocol name.
RegisteredStrategy(name) ==
    CASE name = "rest_api" -> "turn_off_lights_via_rest"
      [] name = "modbus"   -> "turn_off_lights_via_modbus"
      [] name = "knx"      -> "turn_off_lights_via_knx"
      [] name = "bacnet"   -> "turn_off_lights_via_bacnet"
      [] name = "mqtt"     -> "turn_off_lights_via_mqtt"
GenericOrder ==
    <<"turn_off_lights_via_rest", "turn_off_lights_via_modbus",
      "turn_off_lights_via_knx">>

\* C23: a dispatch for rest_api, modbus, knx, bacnet or mqtt calls the one
\* strategy of that name once and returns what it returned; a dispatch for
\* any other name calls REST, Modbus, KNX in that order, stops at the first
\* that succeeds, and returns true exactly if one did.
C23_StrategyByProtocolName ==
    \A n \in 1..Len(dispatched) :
        LET d == dispatched[n]
            name == found_controllers[d.ci].protocol
        IN  IF name \in {"rest_api", "modbus", "knx", "bacnet", "mqtt"}
            THEN d.calls = <<[m |-> RegisteredStrategy(name), ok |-> d.ok]>>
            ELSE /\ Len(d.calls) \in 1..Len(GenericOrder)
                 /\ \A k \in 1..Len(d.calls) : d.calls[k].m = GenericOrder[k]
                 /\ \A k \in 1..(Len(d.calls) - 1) : ~d.calls[k].ok
                 /\ d.ok = d.calls[Len(d.calls)].ok
                 /\ ~d.ok => Len(d.calls) = Len(GenericOrder)

\* A dali or opcua controller was dispatched and Modbus, the second generic
\* strategy, succeeded; and a dispatch by name happened in the same run.
C23_Witness ==
    /\ \E n \in 1..Len(dispatched) :
         /\ found_controllers[dispatched[n].ci].protocol \in {"dali", "opcua"}
         /\ Len(dispatched[n].calls) = 2
         /\ dispatched[n].ok
    /\ \E n \in 1..Len(dispatched) :
         /\ found_controllers[dispatched[n].ci].protocol \in {"knx", "bacnet"}
         /\ ~dispatched[n].ok

\* ---------------------------------------------------------------- C24 ----
\* A strategy is running against controller ci.
StrategyRunning ==
    bld_pc \in { RegisteredStrategy(name) : name \in {"rest_api", "modbus", "knx", "bacnet", "mqtt"} }

\* C24: controllers are dispatched in the order of the discovery result,
\* nothing is dispatched or contacted after a dispatch that succeeded, and
\* building_wide_light_off returns true exactly if a dispatch succeeded.
C24_StopsAtFirstSuccess ==
    /\ \A n \in 1..Len(dispatched) : dispatched[n].ci = n
    /\ \A n \in 1..(Len(dispatched) - 1) : ~dispatched[n].ok
    /\ StrategyRunning =>
          /\ ci = Len(dispatched) + 1
          /\ \A n \in 1..Len(dispatched) : ~dispatched[n].ok
    /\ bld_pc = "done" =>
          (bld_result = "True" <=> \E n \in 1..Len(dispatched) : dispatched[n].ok)

\* The first controller failed, the second succeeded, a third was found and
\* never dispatched.
C24_Witness ==
    /\ bld_pc = "done"
    /\ bld_result = "True"
    /\ Len(dispatched) = 2
    /\ Len(found_controllers) >= 3

\* ---------------------------------------------------------------- C25 ----
\* C25: once discovery has returned an empty list, no strategy is ever
\* called and building_wide_light_off ends with False; once scan_network
\* has returned an empty list, turn_off_all_lights has returned: no call was
\* submitted to the pool, no result collected, no counts printed.
C25_NothingFoundNothingSent ==
    /\ (script = "dev003" /\ DiscoveryOver /\ found_controllers = <<>>) =>
          /\ bld_pc \in {"discover", "done"}
          /\ dispatched = <<>>
          /\ calls = <<>>
          /\ rest_request = NoRequest
          /\ bld_pc = "done" => bld_result = "False"
    /\ (home_pc \in {"pool", "done"} /\ devices = <<>>) =>
          /\ home_pc = "done"
          /\ tasks = <<>>
          /\ results = <<>>
          /\ ~summary.printed

\* Discovery probed a non-empty target list, found nothing, and the run is
\* over.
C25_Witness ==
    /\ bld_pc = "done"
    /\ common_controllers # <<>>
    /\ probes # <<>>
    /\ found_controllers = <<>>

\* ---------------------------------------------------------------- C26 ----
\* Some answer of the network makes the command for this type return True.
CanSucceed(device_type) ==
    \E r \in Responses : try_turn_off_lights(device_type, r)

\* C26: every type the classifier gave to a discovered device has a command
\* that can succeed.
C26_EveryTypeCanSucceed ==
    \A i \in 1..Len(devices) : CanSucceed(devices[i].type)

\* What the code does for lifx, tuya and home_assistant: the call returns
\* False whatever the network does, and for lifx and tuya sends nothing.
C26_DeadTypesAlwaysFail ==
    \A i \in Returned :
        devices[i].type \in {"lifx", "tuya", "home_assistant"} =>
            /\ ~tasks[i].ret
            /\ devices[i].type \in {"lifx", "tuya"} => ~tasks[i].sent

\* ---------------------------------------------------------------- C27 ----
\* main of dev003 / dev002 has not got past its confirmation.
BuildingUnconfirmed == bld_pc \in {"idle", "confirm", "safety_check", "cancelled"}
HomeUnconfirmed == home_pc \in {"idle", "confirm", "cancelled"}

\* How main may move past a prompt: dev003 to the second prompt only on an
\* answer that is 'yes' in some letter case, past it only on 'CONFIRM' in
\* some letter case; dev002 only on 'y' in some letter case. A cancelled run
\* stays cancelled.
ConfirmationSteps ==
    /\ (bld_pc = "confirm" /\ bld_pc' # bld_pc) =>
          IF ToLower(answer) = "yes" THEN bld_pc' = "safety_check" ELSE bld_pc' = "cancelled"
    /\ (bld_pc = "safety_check" /\ bld_pc' # bld_pc) =>
          IF ToUpper(answer) = "CONFIRM" THEN bld_pc' = "confirmed" ELSE bld_pc' = "cancelled"
    /\ (BuildingUnconfirmed /\ ~BuildingUnconfirmed') => bld_pc = "safety_check"
    /\ (home_pc = "confirm" /\ home_pc' # home_pc) =>
          IF ToLower(answer) = "y" THEN home_pc' = "call" ELSE home_pc' = "cancelled"
    /\ (HomeUnconfirmed /\ ~HomeUnconfirmed') => home_pc = "confirm"
    /\ bld_pc = "cancelled" => bld_pc' = "cancelled"
    /\ home_pc = "cancelled" => home_pc' = "cancelled"

\* C27: while main has not been confirmed (or was cancelled) nothing has
\* been probed, scanned or commanded, and main gets past its prompts only
\* by the confirming answers.
C27_NothingBeforeConfirmation ==
    /\ []((script = "dev003" /\ BuildingUnconfirmed) =>
            /\ probes = <<>>
            /\ found_controllers = <<>>
            /\ dispatched = <<>>
            /\ calls = <<>>
            /\ rest_request = NoRequest
            /\ ~leaked)
    /\ []((script = "dev002" /\ HomeUnconfirmed) =>
            /\ nmap_output = <<>>
            /\ devices = <<>>
            /\ tasks = <<>>
            /\ results = <<>>)
    /\ [][ConfirmationSteps]_vars

\* dev003 was confirmed and has probed the network.
C27_Witness ==
    /\ script = "dev003"
    /\ ~BuildingUnconfirmed
    /\ probes # <<>>

\* ---------------------------------------------------------------- C28 ----
\* The host report lines of the output before line n.
ReportsBefore(lines, n) == { k \in 1..(n - 1) : lines[k].kind = "report" }
\* The address of the host whose report block holds line n.
BlockAddress(lines, n) ==
    LET k == CHOOSE k \in ReportsBefore(lines, n) :
                 \A j \in ReportsBefore(lines, n) : j <= k
    IN  lines[k].ip

\* C28: every entry parse_nmap_output produced comes from an open-port line
\* inside a host report block, carries the address of that block, a port of
\* the table, and the type the classifier gives that port.
C28_EntryCarriesBlockAddress ==
    \A i \in 1..Len(devices) :
        LET d == devices[i]
            line == nmap_output[d.line]
        IN  /\ line.kind = "port" /\ line.state = "open" /\ line.port = d.port
            /\ ReportsBefore(nmap_output, d.line) # {}
            /\ d.ip = BlockAddress(nmap_output, d.line)
            /\ \E k \in 1..Len(common_ports) : common_ports[k].port = d.port
            /\ d.type = identify_device_by_port(common_ports, d.port)

=============================================================================
